---- MODULE Spec2Model ----
(***************************************************************************)
(* A model of the InMotion data-access layer (server/storage.ts, class     *)
(* DatabaseStorage) over the tables of shared/schema.ts, as called by the  *)
(* request handlers of server/routes.ts.                                   *)
(*                                                                         *)
(* A table is the set of its rows; a row is a record of its columns.  The  *)
(* store's gen_random_uuid() is the counter nextId, its now() the clock.   *)
(* A value of type Partial<T> or Insert<T> is a record holding some of the *)
(* columns.  A statement's .returning() array is the set of rows written,  *)
(* and "const [x] = rows" takes one of them or, of none, undefined (the    *)
(* empty set).                                                             *)
(***************************************************************************)
EXTENDS Integers, FiniteSets, Sequences, TLC

\* ------------------------------------------------------------- bounds
\* Rows the store generates ids for (gen_random_uuid never repeats).
MaxRows == 2
\* The store's clock runs from 1 to MaxClock.
MaxClock == 2
\* Requests the server handles at once.
MaxCalls == 2

\* ------------------------------------------------------------- values
Users == {"u1", "u2"}
\* A NULL timestamp column; every now() is later.
NullTime == 0
Ids == 1..MaxRows
Times == 1..MaxClock
\* A NULL text column.
NullText == "null"
\* A NULL reference to another table's row.
NullId == 0
Dates == {"d1", "d2"}
\* A NULL text[] column.
NullList == <<>>
Calls == 1..MaxCalls
\* A request slot with no upsert between its read and its write.
Idle == [op |-> "idle"]
\* The user of a request that carries no session.
NoSession == "anonymous"
\* The lengths of a work session and of a break, in seconds.
workDuration == 25 * 60
breakDuration == 5 * 60
\* The countdowns that the timer may run to zero.
MaxCountdowns == 2

VARIABLES
    users,              \* table users
    visionPlans,        \* table vision_plans
    quarterlyQuests,    \* table quarterly_quests
    weeklyPlans,        \* table weekly_plans
    dailyTasks,         \* table daily_tasks
    pomodoroSessions,   \* table pomodoro_sessions
    dailyReflections,   \* table daily_reflections
    errorLogs,          \* table error_logs
    nextId,             \* the next id gen_random_uuid() yields
    clock,              \* the store's now()
    lastCall,           \* the last storage call that returned: how it ended
    inflight,           \* upserts between their read and their write
    request,            \* the request the server took last
    timer               \* the PomodoroTimer component of the client

vars == <<users, visionPlans, quarterlyQuests, weeklyPlans, dailyTasks,
          pomodoroSessions, dailyReflections, errorLogs,
          nextId, clock, lastCall, inflight, request, timer>>

tables == <<users, visionPlans, quarterlyQuests, weeklyPlans, dailyTasks,
            pomodoroSessions, dailyReflections, errorLogs>>

\* What a statement on one table leaves alone.
exceptVisionPlans == <<users, errorLogs, quarterlyQuests, weeklyPlans, dailyTasks,
                       pomodoroSessions, dailyReflections>>
exceptQuarterlyQuests == <<users, errorLogs, visionPlans, weeklyPlans, dailyTasks,
                           pomodoroSessions, dailyReflections>>
exceptWeeklyPlans == <<users, errorLogs, visionPlans, quarterlyQuests, dailyTasks,
                       pomodoroSessions, dailyReflections>>
exceptDailyTasks == <<users, errorLogs, visionPlans, quarterlyQuests, weeklyPlans,
                      pomodoroSessions, dailyReflections>>
exceptPomodoroSessions == <<users, errorLogs, visionPlans, quarterlyQuests, weeklyPlans,
                            dailyTasks, dailyReflections>>
exceptUsers == <<visionPlans, quarterlyQuests, weeklyPlans, dailyTasks,
                 pomodoroSessions, dailyReflections, errorLogs>>
exceptErrorLogs == <<users, visionPlans, quarterlyQuests, weeklyPlans,
                     dailyTasks, pomodoroSessions, dailyReflections>>
exceptDailyReflections == <<users, errorLogs, visionPlans, quarterlyQuests, weeklyPlans,
                            dailyTasks, pomodoroSessions>>

\* ------------------------------------------------------------ helpers
\* { ...base, ...over }: the columns of over win.
Spread(base, over) ==
    [f \in DOMAIN base \cup DOMAIN over |->
        IF f \in DOMAIN over THEN over[f] ELSE base[f]]

\* UPDATE ... SET: the columns named in set change, the others stay.
SetColumns(row, set) ==
    [f \in DOMAIN row |-> IF f \in DOMAIN set THEN set[f] ELSE row[f]]

\* A call that resolved with the first row of returned (or undefined).
Returned(op, returned) ==
    [op |-> op, threw |-> FALSE, result |-> returned]

\* A call whose promise rejected.
Threw(op) ==
    [op |-> op, threw |-> TRUE, result |-> {}]

\* An upsert that resolved: the row it returns, and the payload it was given.
Upserted(op, payload, returned) ==
    [op |-> op, threw |-> FALSE, result |-> returned, payload |-> payload]

\* An update that resolved: the row it returns, and the updates it was given.
Patched(op, updates, returned) ==
    [op |-> op, threw |-> FALSE, result |-> returned, updates |-> updates]

\* const [x] = rows: what x can be, the store returning rows in any order.
FirstOf(rows) ==
    IF rows = {} THEN { {} } ELSE { {r} : r \in rows }

\* The slot the next request takes (any free one would do).
FreeCall ==
    IF \E c \in Calls : inflight[c] = Idle
    THEN CHOOSE c \in Calls :
            inflight[c] = Idle /\ \A d \in Calls : inflight[d] = Idle => c <= d
    ELSE 1

\* No upsert is between its read and its write.
NoneInFlight == \A c \in Calls : inflight[c] = Idle

\* The rows of users left by logins of earlier runs of the server.
RegisteredUsers ==
    { [id |-> "u1", email |-> "e1", firstName |-> "f1", lastName |-> "l",
       profileImageUrl |-> NullText, createdAt |-> 1, updatedAt |-> 1],
      [id |-> "u2", email |-> "e2", firstName |-> "f1", lastName |-> "l",
       profileImageUrl |-> NullText, createdAt |-> 1, updatedAt |-> 1] }

\* The server starts over an empty store, or over one that holds its users.
Init ==
    /\ users \in {{}, RegisteredUsers}
    /\ errorLogs = {}
    /\ visionPlans = {}
    /\ quarterlyQuests = {}
    /\ weeklyPlans = {}
    /\ dailyTasks = {}
    /\ pomodoroSessions = {}
    /\ dailyReflections = {}
    /\ nextId = 1
    /\ clock = 1
    /\ lastCall = [op |-> "none", threw |-> FALSE, result |-> {}]
    /\ inflight = [c \in Calls |-> Idle]
    /\ request = [route |-> "none", session |-> NoSession, id |-> NullId,
                  body |-> [title |-> "a"]]
    /\ timer = [isRunning |-> FALSE, timeLeft |-> workDuration,
                timerType |-> "work", currentTaskId |-> 1,
                interval |-> FALSE, stale |-> FALSE,
                countdowns |-> 0, posts |-> <<>>]

\* Time passes in the store.
Tick ==
    /\ clock < MaxClock
    /\ clock' = clock + 1
    /\ UNCHANGED <<tables, nextId, lastCall, inflight, request, timer>>

\* A schema whose user_id columns reference nothing.
UserExistsUnchecked(userId) == TRUE

\* user_id references users.id: the store rejects a row of no user.
UserExists(userId) == \E r \in users : r.id = userId

\* The same for a user_id that an UPDATE sets.
OwnerExists(updates) ==
    "userId" \in DOMAIN updates => UserExists(updates.userId)

\* ----------------------------------------------------- quarterly quests
\* What POST /api/quarterly-quests hands to createQuarterlyQuest: the
\* required columns, and progress and isActive when the body carries them.
QuestRequired(u) ==
    [userId : {u}, title : {"a"}, goal : {"g"}, plan : {"p"},
     systems : {"s"}, quarter : {"Q1"}, year : {2024}]

InsertQuarterlyQuests(u) ==
    QuestRequired(u) \cup
    { Spread(q, [isActive |-> FALSE]) : q \in QuestRequired(u) }

\* Bodies of PATCH /api/quarterly-quests/:id, passed on unvalidated.
QuestUpdates ==
    [title : {"b"}] \cup [progress : {50}] \cup [isActive : {FALSE}]
        \cup [userId : Users] \cup [title : {"b"}, updatedAt : {NullTime}]

\* A read of the active quests alone.
getActiveQuarterlyQuests(userId) ==
    { q \in quarterlyQuests : q.userId = userId /\ q.isActive }

getQuarterlyQuests(userId) ==
    { q \in quarterlyQuests : q.userId = userId }

createQuarterlyQuest(quest) ==
    /\ nextId <= MaxRows
    /\ IF UserExists(quest.userId)
       THEN LET created == Spread([id |-> nextId, progress |-> 0, isActive |-> TRUE,
                                   createdAt |-> clock, updatedAt |-> clock], quest)
            IN /\ quarterlyQuests' = quarterlyQuests \cup {created}
               /\ lastCall' = Returned("createQuarterlyQuest", {created})
               /\ nextId' = nextId + 1
       ELSE /\ lastCall' = Threw("createQuarterlyQuest")
            /\ UNCHANGED <<quarterlyQuests, nextId>>
    /\ UNCHANGED <<exceptQuarterlyQuests, clock, request, timer, inflight>>

\* WHERE id = questId AND user_id = userId
QuestMatched(questId, userId) ==
    { q \in quarterlyQuests : q.id = questId /\ q.userId = userId }

updateQuarterlyQuest(questId, userId, updates) ==
    LET matched == QuestMatched(questId, userId)
        set     == Spread(updates, [updatedAt |-> clock])
        updated == { SetColumns(q, set) : q \in matched }
    IN /\ IF matched = {} \/ OwnerExists(updates)
          THEN /\ quarterlyQuests' = (quarterlyQuests \ matched) \cup updated
               /\ lastCall' = Patched("updateQuarterlyQuest", updates, updated)
          ELSE /\ quarterlyQuests' = quarterlyQuests
               /\ lastCall' = Threw("updateQuarterlyQuest")
       /\ UNCHANGED <<exceptQuarterlyQuests, nextId, clock, request, timer, inflight>>

NextQuests ==
    \/ Tick
    \/ \E u \in Users : \E quest \in InsertQuarterlyQuests(u) :
          createQuarterlyQuest(quest)
    \/ \E questId \in Ids, u \in Users, updates \in QuestUpdates :
          updateQuarterlyQuest(questId, u, updates)

SpecQuests == Init /\ [][NextQuests]_vars

\* ------------------------------------------------------------ weekly plans
\* What POST /api/weekly-plans hands to createWeeklyPlan.
InsertWeeklyPlans(u, dates) ==
    [userId : {u}, weekStartDate : dates]

\* Bodies of PATCH /api/weekly-plans/:id, passed on unvalidated.
WeeklyPlanUpdates ==
    [progress : {50}] \cup [userId : Users]

getWeeklyPlans(userId, weekStart) ==
    IF weekStart # NullText
    THEN { p \in weeklyPlans : p.userId = userId /\ p.weekStartDate = weekStart }
    ELSE { p \in weeklyPlans : p.userId = userId }

\* quarterly_quest_id references quarterly_quests.id.
QuestExists(plan) ==
    \/ "quarterlyQuestId" \notin DOMAIN plan
    \/ plan.quarterlyQuestId = NullId
    \/ \E q \in quarterlyQuests : q.id = plan.quarterlyQuestId

createWeeklyPlan(plan) ==
    /\ nextId <= MaxRows
    /\ IF UserExists(plan.userId) /\ QuestExists(plan)
       THEN LET created == Spread([id |-> nextId, quarterlyQuestId |-> NullId,
                                   priorities |-> NullText, reflection |-> NullText,
                                   progress |-> 0,
                                   createdAt |-> clock, updatedAt |-> clock], plan)
            IN /\ weeklyPlans' = weeklyPlans \cup {created}
               /\ lastCall' = Returned("createWeeklyPlan", {created})
               /\ nextId' = nextId + 1
       ELSE /\ lastCall' = Threw("createWeeklyPlan")
            /\ UNCHANGED <<weeklyPlans, nextId>>
    /\ UNCHANGED <<exceptWeeklyPlans, clock, request, timer, inflight>>

\* WHERE id = planId AND user_id = userId
WeeklyPlanMatched(planId, userId) ==
    { p \in weeklyPlans : p.id = planId /\ p.userId = userId }

\* An update whose SET clause lets the request's columns win over the stamp.
updateWeeklyPlanStampFirst(planId, userId, updates) ==
    LET matched == WeeklyPlanMatched(planId, userId)
        set     == Spread([updatedAt |-> clock], updates)
        updated == { SetColumns(p, set) : p \in matched }
    IN /\ IF matched = {} \/ OwnerExists(updates)
          THEN /\ weeklyPlans' = (weeklyPlans \ matched) \cup updated
               /\ lastCall' = Patched("updateWeeklyPlan", updates, updated)
          ELSE /\ weeklyPlans' = weeklyPlans
               /\ lastCall' = Threw("updateWeeklyPlan")
       /\ UNCHANGED <<exceptWeeklyPlans, nextId, clock, request, timer, inflight>>

updateWeeklyPlan(planId, userId, updates) ==
    LET matched == WeeklyPlanMatched(planId, userId)
        set     == Spread(updates, [updatedAt |-> clock])
        updated == { SetColumns(p, set) : p \in matched }
    IN /\ IF matched = {} \/ OwnerExists(updates)
          THEN /\ weeklyPlans' = (weeklyPlans \ matched) \cup updated
               /\ lastCall' = Patched("updateWeeklyPlan", updates, updated)
          ELSE /\ weeklyPlans' = weeklyPlans
               /\ lastCall' = Threw("updateWeeklyPlan")
       /\ UNCHANGED <<exceptWeeklyPlans, nextId, clock, request, timer, inflight>>

\* ------------------------------------------------------------- daily tasks
\* What POST /api/daily-tasks hands to createDailyTask: insertDailyTaskSchema
\* keeps isCompleted when the body carries it and drops completedAt.
TaskRequired(u, dates) ==
    [userId : {u}, title : {"a"}, impact : {"high"}, date : dates]

InsertDailyTasks(u, dates) ==
    TaskRequired(u, dates) \cup
    { Spread(t, [isCompleted |-> TRUE]) : t \in TaskRequired(u, dates) }

\* A completedAt a request body carries: null, or a time of the client's.
BodyTimes == {NullTime, MaxClock}

\* Bodies of PATCH /api/daily-tasks/:id, passed on unvalidated: the client's
\* toggle sends isCompleted with a completedAt of its own.
TaskUpdates ==
    [isCompleted : BOOLEAN] \cup [title : {"b"}]
        \cup [isCompleted : BOOLEAN, title : {"b"}]
        \cup [isCompleted : BOOLEAN, completedAt : BodyTimes]
        \cup [completedAt : BodyTimes]

\* A read that takes no account of the date asked for.
getDailyTasksOfAllDates(userId, date) ==
    { t \in dailyTasks : t.userId = userId }

\* A read filtered by date alone.
getDailyTasksOfAll(userId, date) ==
    IF date # NullText
    THEN { t \in dailyTasks : t.date = date }
    ELSE dailyTasks

getDailyTasks(userId, date) ==
    IF date # NullText
    THEN { t \in dailyTasks : t.userId = userId /\ t.date = date }
    ELSE { t \in dailyTasks : t.userId = userId }

\* weekly_plan_id references weekly_plans.id.
WeeklyPlanExists(task) ==
    \/ "weeklyPlanId" \notin DOMAIN task
    \/ task.weeklyPlanId = NullId
    \/ \E p \in weeklyPlans : p.id = task.weeklyPlanId

createDailyTask(task) ==
    /\ nextId <= MaxRows
    /\ IF UserExists(task.userId) /\ WeeklyPlanExists(task)
       THEN LET created == Spread([id |-> nextId, weeklyPlanId |-> NullId,
                                   description |-> NullText, isCompleted |-> FALSE,
                                   completedAt |-> NullTime, pomodoroCount |-> 0,
                                   createdAt |-> clock, updatedAt |-> clock], task)
            IN /\ dailyTasks' = dailyTasks \cup {created}
               /\ lastCall' = Returned("createDailyTask", {created})
               /\ nextId' = nextId + 1
       ELSE /\ lastCall' = Threw("createDailyTask")
            /\ UNCHANGED <<dailyTasks, nextId>>
    /\ UNCHANGED <<exceptDailyTasks, clock, request, timer, inflight>>

\* A SET clause in which the request's columns win over the derived one.
TaskUpdateDataBodyLast(updates) ==
    LET derived == IF "isCompleted" \in DOMAIN updates
                   THEN [completedAt |-> IF updates.isCompleted THEN clock ELSE NullTime,
                         updatedAt |-> clock]
                   ELSE [updatedAt |-> clock]
    IN Spread(derived, updates)

\* The SET clause updateDailyTask builds from the request's updates.
TaskUpdateData(updates) ==
    LET updateData == Spread(updates, [updatedAt |-> clock])
    IN IF "isCompleted" \in DOMAIN updates
       THEN Spread(updateData,
                   [completedAt |-> IF updates.isCompleted THEN clock ELSE NullTime])
       ELSE updateData

\* A completedAt of the request body that reaches the statement: JSON carries
\* it as a string, where the timestamp column's encoder takes a Date.
BodyTimestamp(updates) ==
    /\ "isCompleted" \notin DOMAIN updates
    /\ "completedAt" \in DOMAIN updates
    /\ updates.completedAt # NullTime

\* WHERE user_id = userId
TaskMatchedByUser(taskId, userId) ==
    { t \in dailyTasks : t.userId = userId }

\* WHERE id = taskId
TaskMatchedById(taskId, userId) ==
    { t \in dailyTasks : t.id = taskId }

\* WHERE id = taskId AND user_id = userId
TaskMatched(taskId, userId) ==
    { t \in dailyTasks : t.id = taskId /\ t.userId = userId }

updateDailyTask(taskId, userId, updates) ==
    LET matched == TaskMatched(taskId, userId)
        updated == { SetColumns(t, TaskUpdateData(updates)) : t \in matched }
    IN /\ \/ /\ matched = {} \/ OwnerExists(updates)
             /\ dailyTasks' = (dailyTasks \ matched) \cup updated
             /\ lastCall' = Patched("updateDailyTask", updates, updated)
          \/ /\ matched # {} /\ ~OwnerExists(updates)
             /\ dailyTasks' = dailyTasks
             /\ lastCall' = Threw("updateDailyTask")
          \/ /\ BodyTimestamp(updates)
             /\ dailyTasks' = dailyTasks
             /\ lastCall' = Threw("updateDailyTask")
       /\ UNCHANGED <<exceptDailyTasks, nextId, clock, request, timer, inflight>>

\* A delete under ON DELETE CASCADE: the sessions linked to the task go too.
deleteDailyTaskCascading(taskId, userId) ==
    LET matched == TaskMatched(taskId, userId)
        deleted == { t.id : t \in matched }
    IN /\ dailyTasks' = dailyTasks \ matched
       /\ pomodoroSessions' = { s \in pomodoroSessions : s.taskId \notin deleted }
       /\ lastCall' = Returned("deleteDailyTask", {})
       /\ UNCHANGED <<users, visionPlans, quarterlyQuests, weeklyPlans,
                      dailyReflections, errorLogs, nextId, clock, request, timer, inflight>>

deleteDailyTask(taskId, userId) ==
    LET matched == TaskMatched(taskId, userId)
        deleted == { t.id : t \in matched }
    IN /\ dailyTasks' = dailyTasks \ matched
       /\ pomodoroSessions' =
             { IF s.taskId \in deleted THEN [s EXCEPT !.taskId = NullId] ELSE s :
                  s \in pomodoroSessions }
       /\ lastCall' = Returned("deleteDailyTask", {})
       /\ UNCHANGED <<users, visionPlans, quarterlyQuests, weeklyPlans,
                      dailyReflections, errorLogs, nextId, clock, request, timer, inflight>>

NextTasks ==
    \/ Tick
    \/ \E u \in Users : \E task \in InsertDailyTasks(u, {"d1"}) :
          createDailyTask(task)
    \/ \E taskId \in Ids, u \in Users, updates \in TaskUpdates :
          updateDailyTask(taskId, u, updates)
    \/ \E taskId \in Ids, u \in Users : deleteDailyTask(taskId, u)

SpecTasks == Init /\ [][NextTasks]_vars

OwnershipTaskUpdates ==
    [isCompleted : {TRUE}] \cup [title : {"b"}] \cup [userId : Users]

\* Weekly plans and daily tasks of two users, each calling with the ids of both.
NextOwnership ==
    \/ Tick
    \/ \E u \in Users : \E plan \in InsertWeeklyPlans(u, {"d1"}) :
          createWeeklyPlan(plan)
    \/ \E planId \in Ids, u \in Users, updates \in WeeklyPlanUpdates :
          updateWeeklyPlan(planId, u, updates)
    \/ \E u \in Users : \E task \in TaskRequired(u, {"d1"}) : createDailyTask(task)
    \/ \E taskId \in Ids, u \in Users, updates \in OwnershipTaskUpdates :
          updateDailyTask(taskId, u, updates)
    \/ \E taskId \in Ids, u \in Users : deleteDailyTask(taskId, u)

SpecOwnership == Init /\ [][NextOwnership]_vars

\* ------------------------------------------------------------ vision plans
\* The nullable columns of vision_plans, none of them with a default.
VisionPlanNulls ==
    [coreValues |-> NullList, threeYearVision |-> NullText, whyEngine |-> NullText]

\* What POST /api/vision hands to upsertVisionPlan: the client's form sends
\* the three columns, the schema asks only for userId.
InsertVisionPlans(u, visions) ==
    [userId : {u}, coreValues : {<<"v1", "v2", "v3">>},
     threeYearVision : visions, whyEngine : {"w"}]
        \cup [userId : {u}, coreValues : {<<"v1">>}]

\* The rows the select of getVisionPlan yields; the call returns the first,
\* or undefined of none.
getVisionPlan(userId) ==
    { p \in visionPlans : p.userId = userId }

\* upsertVisionPlan up to its first await: the lookup.
upsertVisionPlanRead(c, visionPlan) ==
    /\ inflight[c] = Idle
    /\ inflight' = [inflight EXCEPT ![c] =
          [op |-> "upsertVisionPlan", payload |-> visionPlan,
           existing |-> getVisionPlan(visionPlan.userId)]]
    /\ UNCHANGED <<tables, nextId, clock, request, timer, lastCall>>

\* An update that stamps the row as if it were new.
VisionPlanRestamped(visionPlan) ==
    { SetColumns(p, Spread(visionPlan, [createdAt |-> clock, updatedAt |-> clock])) :
         p \in { q \in visionPlans : q.userId = visionPlan.userId } }

\* An update that writes every column, an absent one as NULL.
VisionPlanReplaced(visionPlan) ==
    { SetColumns(p, Spread(Spread(VisionPlanNulls, visionPlan),
                           [updatedAt |-> clock])) :
         p \in { q \in visionPlans : q.userId = visionPlan.userId } }

\* UPDATE vision_plans SET ...visionPlan, updatedAt WHERE user_id = ...
VisionPlanUpdated(visionPlan) ==
    { SetColumns(p, Spread(visionPlan, [updatedAt |-> clock])) :
         p \in { q \in visionPlans : q.userId = visionPlan.userId } }

\* INSERT INTO vision_plans VALUES visionPlan
VisionPlanCreated(visionPlan) ==
    Spread(Spread([id |-> nextId, createdAt |-> clock, updatedAt |-> clock],
                  VisionPlanNulls), visionPlan)

\* An upsert that inserts whatever its lookup answered.
VisionPlanNeverFound(call) == FALSE

\* if (existing)
VisionPlanFound(call) == call.existing # {}

\* upsertVisionPlan from its lookup's answer on: the update or the insert.
upsertVisionPlanWrite(c) ==
    /\ inflight[c].op = "upsertVisionPlan"
    /\ LET visionPlan == inflight[c].payload
       IN IF VisionPlanFound(inflight[c])
          THEN /\ visionPlans' =
                     { p \in visionPlans : p.userId # visionPlan.userId }
                        \cup VisionPlanUpdated(visionPlan)
               /\ \E updated \in FirstOf(VisionPlanUpdated(visionPlan)) :
                     lastCall' = Upserted("upsertVisionPlan", visionPlan, updated)
               /\ nextId' = nextId
          ELSE /\ nextId <= MaxRows
               /\ IF UserExists(visionPlan.userId)
                  THEN /\ visionPlans' =
                             visionPlans \cup {VisionPlanCreated(visionPlan)}
                       /\ lastCall' = Upserted("upsertVisionPlan", visionPlan,
                                               {VisionPlanCreated(visionPlan)})
                       /\ nextId' = nextId + 1
                  ELSE /\ lastCall' = Threw("upsertVisionPlan")
                       /\ UNCHANGED <<visionPlans, nextId>>
    /\ inflight' = [inflight EXCEPT ![c] = Idle]
    /\ UNCHANGED <<exceptVisionPlans, clock, request, timer>>

\* Each upsertVisionPlan runs to completion before the next call starts.
NextVision ==
    \/ Tick
    \/ \E u \in Users : \E visionPlan \in InsertVisionPlans(u, {"x", "y"}) :
          NoneInFlight /\ upsertVisionPlanRead(1, visionPlan)
    \/ \E c \in Calls : upsertVisionPlanWrite(c)

SpecVision == Init /\ [][NextVision]_vars

\* -------------------------------------------------------- daily reflections
\* What POST /api/daily-reflections hands to upsertDailyReflection.
InsertDailyReflections(u, dates, texts) ==
    [userId : {u}, date : dates, reflection : texts,
     tomorrowPriority : {"p"}]
        \cup [userId : {u}, date : dates, energyLevel : {3}]

\* A lookup by user alone.
getDailyReflectionOfUser(userId, date) ==
    { r \in dailyReflections : r.userId = userId }

\* The rows the select of getDailyReflection yields; the call returns the
\* first, or undefined of none.
getDailyReflection(userId, date) ==
    { r \in dailyReflections : r.userId = userId /\ r.date = date }

\* upsertDailyReflection up to its first await: the lookup.
upsertDailyReflectionRead(c, reflection) ==
    /\ inflight[c] = Idle
    /\ inflight' = [inflight EXCEPT ![c] =
          [op |-> "upsertDailyReflection", payload |-> reflection,
           existing |-> getDailyReflection(reflection.userId, reflection.date)]]
    /\ UNCHANGED <<tables, nextId, clock, request, timer, lastCall>>

\* UPDATE daily_reflections SET ...reflection, updatedAt
\* WHERE user_id = ... AND date = ...
DailyReflectionMatched(reflection) ==
    { r \in dailyReflections :
         r.userId = reflection.userId /\ r.date = reflection.date }

\* An upsert that deletes the row it found and inserts the payload as a new one.
DailyReflectionReinserted(reflection) ==
    { Spread(SetColumns(r, Spread(reflection, [updatedAt |-> clock])),
             [id |-> nextId]) :
         r \in DailyReflectionMatched(reflection) }

DailyReflectionUpdated(reflection) ==
    { SetColumns(r, Spread(reflection, [updatedAt |-> clock])) :
         r \in DailyReflectionMatched(reflection) }

\* INSERT INTO daily_reflections VALUES reflection (energy_level, 1 to 5, has
\* no default: 0 stands for its NULL)
DailyReflectionCreated(reflection) ==
    Spread([id |-> nextId, reflection |-> NullText,
            tomorrowPriority |-> NullText, energyLevel |-> 0,
            createdAt |-> clock, updatedAt |-> clock], reflection)

\* if (existing)
DailyReflectionFound(call) == call.existing # {}

\* upsertDailyReflection from its lookup's answer on.
upsertDailyReflectionWrite(c) ==
    /\ inflight[c].op = "upsertDailyReflection"
    /\ LET reflection == inflight[c].payload
       IN IF DailyReflectionFound(inflight[c])
          THEN /\ dailyReflections' =
                     (dailyReflections \ DailyReflectionMatched(reflection))
                        \cup DailyReflectionUpdated(reflection)
               /\ \E updated \in FirstOf(DailyReflectionUpdated(reflection)) :
                     lastCall' = Upserted("upsertDailyReflection", reflection, updated)
               /\ nextId' = nextId
          ELSE /\ nextId <= MaxRows
               /\ IF UserExists(reflection.userId)
                  THEN /\ dailyReflections' =
                             dailyReflections \cup {DailyReflectionCreated(reflection)}
                       /\ lastCall' = Upserted("upsertDailyReflection", reflection,
                                               {DailyReflectionCreated(reflection)})
                       /\ nextId' = nextId + 1
                  ELSE /\ lastCall' = Threw("upsertDailyReflection")
                       /\ UNCHANGED <<dailyReflections, nextId>>
    /\ inflight' = [inflight EXCEPT ![c] = Idle]
    /\ UNCHANGED <<exceptDailyReflections, clock, request, timer>>

\* Each upsertDailyReflection runs to completion before the next call starts.
NextReflections ==
    \/ Tick
    \/ \E u \in Users : \E reflection \in InsertDailyReflections(u, Dates, {"r1", "r2"}) :
          NoneInFlight /\ upsertDailyReflectionRead(1, reflection)
    \/ \E c \in Calls : upsertDailyReflectionWrite(c)

SpecReflections == Init /\ [][NextReflections]_vars

\* -------------------------------------------------------- pomodoro sessions
\* A timestamp the client sends: a calendar date and a time of day.
ClientTimestamps(dates, times) == [date : dates, time : times]

\* What POST /api/pomodoro-sessions hands to createPomodoroSession.
InsertPomodoroSessions(u, taskIds, durations, stamps) ==
    [userId : {u}, taskId : taskIds, duration : durations,
     type : {"work", "break"}, completedAt : stamps]

\* task_id references daily_tasks.id.
TaskExists(taskId) ==
    taskId = NullId \/ \E t \in dailyTasks : t.id = taskId

\* A create that also counts the session on the task it is linked to.
createPomodoroSessionCounting(session) ==
    /\ nextId <= MaxRows
    /\ IF UserExists(session.userId) /\ TaskExists(session.taskId)
       THEN LET created == Spread([id |-> nextId, createdAt |-> clock], session)
            IN /\ pomodoroSessions' = pomodoroSessions \cup {created}
               /\ dailyTasks' =
                     { IF t.id = session.taskId
                       THEN [t EXCEPT !.pomodoroCount = @ + 1] ELSE t :
                          t \in dailyTasks }
               /\ lastCall' = Returned("createPomodoroSession", {created})
               /\ nextId' = nextId + 1
       ELSE /\ lastCall' = Threw("createPomodoroSession")
            /\ UNCHANGED <<pomodoroSessions, dailyTasks, nextId>>
    /\ UNCHANGED <<users, errorLogs, visionPlans, quarterlyQuests, weeklyPlans,
                   dailyReflections, clock, request, timer, inflight>>

createPomodoroSession(session) ==
    /\ nextId <= MaxRows
    /\ IF UserExists(session.userId) /\ TaskExists(session.taskId)
       THEN LET created == Spread([id |-> nextId, createdAt |-> clock], session)
            IN /\ pomodoroSessions' = pomodoroSessions \cup {created}
               /\ lastCall' = Returned("createPomodoroSession", {created})
               /\ nextId' = nextId + 1
       ELSE /\ lastCall' = Threw("createPomodoroSession")
            /\ UNCHANGED <<pomodoroSessions, nextId>>
    /\ UNCHANGED <<exceptPomodoroSessions, clock, request, timer, inflight>>

\* sessions.reduce((sum, session) => sum + session.duration, 0)
RECURSIVE SumDurations(_)
SumDurations(sessions) ==
    IF sessions = {} THEN 0
    ELSE LET s == CHOOSE x \in sessions : TRUE
         IN s.duration + SumDurations(sessions \ {s})

\* Math.floor(a / b)
FloorDiv(a, b) == a \div b

\* Math.round(a / b) for a >= 0 and b > 0.
RoundDiv(a, b) == (2 * a + b) \div (2 * b)

\* getPomodoroStats over a given content of pomodoro_sessions.
PomodoroStats(table, userId, date) ==
    LET sessions ==
            IF date # NullText
            THEN { s \in table : s.userId = userId /\ s.completedAt.date = date }
            ELSE { s \in table : s.userId = userId }
        workSessions == { s \in sessions : s.type = "work" }
        totalFocusTime == SumDurations(workSessions)
        completedPomodoros == Cardinality(workSessions)
    IN [totalFocusTime |-> totalFocusTime,
        completedPomodoros |-> completedPomodoros,
        averageSessionLength |->
            IF completedPomodoros > 0
            THEN RoundDiv(totalFocusTime, completedPomodoros) ELSE 0]

\* Statistics that take no account of the date asked for.
getPomodoroStatsOfAllDays(userId, date) ==
    PomodoroStats(pomodoroSessions, userId, NullText)

\* Statistics taken over the sessions that are linked to a task.
getPomodoroStatsOfTasks(userId, date) ==
    PomodoroStats({ s \in pomodoroSessions : s.taskId # NullId }, userId, date)

getPomodoroStats(userId, date) ==
    PomodoroStats(pomodoroSessions, userId, date)

\* Every table written and read by both users.
NextReads ==
    \/ \E u \in Users : \E visionPlan \in InsertVisionPlans(u, {"x"}) :
          NoneInFlight /\ upsertVisionPlanRead(1, visionPlan)
    \/ \E c \in Calls : upsertVisionPlanWrite(c)
    \/ \E u \in Users : \E quest \in QuestRequired(u) : createQuarterlyQuest(quest)
    \/ \E questId \in Ids, u \in Users, updates \in [userId : Users] :
          updateQuarterlyQuest(questId, u, updates)
    \/ \E u \in Users : \E plan \in InsertWeeklyPlans(u, {"d1"}) :
          createWeeklyPlan(plan)
    \/ \E planId \in Ids, u \in Users, updates \in [userId : Users] :
          updateWeeklyPlan(planId, u, updates)
    \/ \E u \in Users : \E task \in TaskRequired(u, Dates) : createDailyTask(task)
    \/ \E taskId \in Ids, u \in Users, updates \in [userId : Users] :
          updateDailyTask(taskId, u, updates)
    \/ \E taskId \in Ids, u \in Users : deleteDailyTask(taskId, u)
    \/ \E u \in Users :
          \E session \in InsertPomodoroSessions(u, {NullId}, {1500},
                                                ClientTimestamps(Dates, {1})) :
             createPomodoroSession(session)
    \/ \E u \in Users :
          \E reflection \in InsertDailyReflections(u, Dates, {"r1"}) :
             NoneInFlight /\ upsertDailyReflectionRead(1, reflection)
    \/ \E c \in Calls : upsertDailyReflectionWrite(c)

SpecReads == Init /\ [][NextReads]_vars

\* Requests are handled concurrently: an upsert's lookup and its write are
\* two statements, and other requests' statements run between them.
NextUpsertRace ==
    \/ \E u \in Users : \E visionPlan \in InsertVisionPlans(u, {"x"}) :
          upsertVisionPlanRead(FreeCall, visionPlan)
    \/ \E c \in Calls : upsertVisionPlanWrite(c)
    \/ \E u \in Users :
          \E reflection \in InsertDailyReflections(u, {"d1"}, {"r1"}) :
             upsertDailyReflectionRead(FreeCall, reflection)
    \/ \E c \in Calls : upsertDailyReflectionWrite(c)

SpecUpsertRace == Init /\ [][NextUpsertRace]_vars

\* ------------------------------------------------------------------ users
\* What the login hands to upsertUser: the identity's id and its profile.
Emails == {"e1", "e2"}

UpsertUsers(emails, names) ==
    [id : Users, email : emails, firstName : names,
     lastName : {"l"}, profileImageUrl : {NullText}]

\* The rows the select of a single-row getter yields for getUser.
getUser(id) ==
    { r \in users : r.id = id }

\* A single-row getter that rejects when no row matches.
GotOrThrew(op, rows) ==
    IF rows = {}
    THEN { Threw(op) }
    ELSE { Returned(op, first) : first \in FirstOf(rows) }

\* What a single-row getter can resolve with, of the rows its select yields:
\* const [row] = rows; return row || undefined.
Got(op, rows) ==
    { Returned(op, first) : first \in FirstOf(rows) }

\* users.email is unique: another row holds the email.
EmailTaken(user) ==
    \E r \in users : r.id # user.id /\ r.email = user.email

\* INSERT INTO users VALUES user
UserCreated(user) ==
    Spread([createdAt |-> clock, updatedAt |-> clock], user)

\* A conflict resolved by replacing the row with a new one.
UserReplaced(row, user) ==
    Spread([createdAt |-> clock, updatedAt |-> clock], user)

\* ON CONFLICT (id) DO UPDATE SET email, first_name, last_name,
\* profile_image_url, updated_at
UserUpdated(row, user) ==
    SetColumns(row, [email |-> user.email, firstName |-> user.firstName,
                     lastName |-> user.lastName,
                     profileImageUrl |-> user.profileImageUrl,
                     updatedAt |-> clock])

\* One statement: the store decides between insert and update.
upsertUser(user) ==
    /\ IF EmailTaken(user)
       THEN /\ users' = users
            /\ lastCall' = Threw("upsertUser")
       ELSE LET conflict == getUser(user.id)
                result   == IF conflict = {}
                            THEN { UserCreated(user) }
                            ELSE { UserUpdated(r, user) : r \in conflict }
            IN /\ users' = (users \ conflict) \cup result
               /\ lastCall' = Returned("upsertUser", result)
    /\ UNCHANGED <<exceptUsers, nextId, clock, request, timer, inflight>>

\* DELETE FROM users WHERE id = ..., as the schema has the store carry it out:
\* ON DELETE CASCADE removes the user's rows of every table, and ON DELETE SET
\* NULL clears the links of the rows left to rows that went.
removeUser(id) ==
    LET gone(table) == { r.id : r \in { x \in table : x.userId = id } }
        kept(table) == { r \in table : r.userId # id }
    IN /\ UserExists(id)
       /\ users' = { r \in users : r.id # id }
       /\ visionPlans' = kept(visionPlans)
       /\ quarterlyQuests' = kept(quarterlyQuests)
       /\ weeklyPlans' =
             { IF p.quarterlyQuestId \in gone(quarterlyQuests)
               THEN [p EXCEPT !.quarterlyQuestId = NullId] ELSE p :
                  p \in kept(weeklyPlans) }
       /\ dailyTasks' =
             { IF t.weeklyPlanId \in gone(weeklyPlans)
               THEN [t EXCEPT !.weeklyPlanId = NullId] ELSE t :
                  t \in kept(dailyTasks) }
       /\ pomodoroSessions' =
             { IF s.taskId \in gone(dailyTasks)
               THEN [s EXCEPT !.taskId = NullId] ELSE s :
                  s \in kept(pomodoroSessions) }
       /\ dailyReflections' = kept(dailyReflections)
       /\ lastCall' = Returned("removeUser", {})
       /\ UNCHANGED <<errorLogs, nextId, clock, request, timer, inflight>>

\* Users come and go, and rows of every owned table are written for users
\* that exist and for users that do not.
NextCascade ==
    \/ \E user \in UpsertUsers(Emails, {"f1"}) : NoneInFlight /\ upsertUser(user)
    \/ \E u \in Users : NoneInFlight /\ removeUser(u)
    \/ \E u \in Users : \E visionPlan \in InsertVisionPlans(u, {"x"}) :
          NoneInFlight /\ upsertVisionPlanRead(1, visionPlan)
    \/ upsertVisionPlanWrite(1)
    \/ \E u \in Users : \E quest \in QuestRequired(u) :
          NoneInFlight /\ createQuarterlyQuest(quest)
    \/ \E u \in Users : \E plan \in InsertWeeklyPlans(u, {"d1"}) :
          NoneInFlight /\ createWeeklyPlan(plan)
    \/ \E u \in Users : \E task \in TaskRequired(u, {"d1"}) :
          NoneInFlight /\ createDailyTask(task)
    \/ \E taskId \in Ids, u \in Users, updates \in [userId : Users] :
          NoneInFlight /\ updateDailyTask(taskId, u, updates)
    \/ \E u \in Users :
          \E session \in InsertPomodoroSessions(u, Ids \cup {NullId}, {1500},
                                                ClientTimestamps({"d1"}, {1})) :
             NoneInFlight /\ createPomodoroSession(session)
    \/ \E reflection \in InsertDailyReflections("u1", {"d1"}, {"r1"}) :
          NoneInFlight /\ upsertDailyReflectionRead(1, reflection)
    \/ upsertDailyReflectionWrite(1)

SpecCascade == Init /\ [][NextCascade]_vars

\* Logins of two identities, under changing profiles.
NextUsers ==
    \/ Tick
    \/ \E user \in UpsertUsers(Emails, {"f1", "f2"}) : upsertUser(user)

SpecUsers == Init /\ [][NextUsers]_vars

\* Logins, and the two upserts, each call run to completion before the next.
NextSingles ==
    \/ \E user \in UpsertUsers({"e1"}, {"f1"}) : upsertUser(user)
    \/ \E u \in Users : \E visionPlan \in InsertVisionPlans(u, {"x"}) :
          NoneInFlight /\ upsertVisionPlanRead(1, visionPlan)
    \/ \E c \in Calls : upsertVisionPlanWrite(c)
    \/ \E u \in Users :
          \E reflection \in InsertDailyReflections(u, Dates, {"r1"}) :
             NoneInFlight /\ upsertDailyReflectionRead(1, reflection)
    \/ \E c \in Calls : upsertDailyReflectionWrite(c)

SpecSingles == Init /\ [][NextSingles]_vars

\* --------------------------------------------------------------- error logs
\* What POST /api/error-logs hands to createErrorLog: a client's error report,
\* with the user's id when there is one.
InsertErrorLogs ==
    [blockType : {"timer"}, errorMessage : {"m"}] \cup
    [blockType : {"timer"}, errorMessage : {"m"}, userId : {"u1"}]

createErrorLog(errorLog) ==
    /\ nextId <= MaxRows
    /\ LET created == Spread([id |-> nextId, errorStack |-> NullText,
                              errorDetails |-> NullText, userId |-> NullText,
                              createdAt |-> clock], errorLog)
       IN /\ errorLogs' = errorLogs \cup {created}
          /\ lastCall' = Returned("createErrorLog", {created})
    /\ nextId' = nextId + 1
    /\ UNCHANGED <<exceptErrorLogs, clock, request, timer, inflight>>

\* Tasks, sessions that are each linked to a task, and error reports.
NextLinked ==
    \/ Tick
    \/ \E u \in Users : \E task \in TaskRequired(u, {"d1"}) : createDailyTask(task)
    \/ \E taskId \in Ids, u \in Users, updates \in [isCompleted : {TRUE}] :
          updateDailyTask(taskId, u, updates)
    \/ \E taskId \in Ids, u \in Users : deleteDailyTask(taskId, u)
    \/ \E u \in Users :
          \E session \in InsertPomodoroSessions(u, Ids, {1500},
                                                ClientTimestamps({"d1"}, {1})) :
             createPomodoroSession(session)
    \/ \E errorLog \in InsertErrorLogs : createErrorLog(errorLog)

SpecLinked == Init /\ [][NextLinked]_vars

\* Daily tasks, and pomodoro sessions linked to them or to none.
NextSessions ==
    \/ Tick
    \/ \E u \in Users : \E task \in TaskRequired(u, {"d1"}) : createDailyTask(task)
    \/ \E taskId \in Ids, u \in Users : deleteDailyTask(taskId, u)
    \/ \E u \in Users :
          \E session \in InsertPomodoroSessions(u, Ids \cup {NullId}, {1500},
                                                ClientTimestamps({"d1"}, {1})) :
             createPomodoroSession(session)

SpecSessions == Init /\ [][NextSessions]_vars

\* Durations, in seconds, of the sessions the statistics are taken over: two
\* that differ by one, so that an average falls between two integers.
WorkDurations == {1500, 1501}

\* Sessions of both types, of two lengths, completed at two times of two days.
NextStats ==
    \E u \in Users :
       \E session \in InsertPomodoroSessions(u, {NullId}, WorkDurations,
                                             ClientTimestamps(Dates, {1, 2})) :
          createPomodoroSession(session)

SpecStats == Init /\ [][NextStats]_vars

\* Weekly plans and daily tasks of two users and two dates.
NextLists ==
    \/ \E u \in Users : \E plan \in InsertWeeklyPlans(u, Dates) :
          createWeeklyPlan(plan)
    \/ \E u \in Users : \E task \in TaskRequired(u, Dates) : createDailyTask(task)
    \/ \E taskId \in Ids, u \in Users : deleteDailyTask(taskId, u)

SpecLists == Init /\ [][NextLists]_vars

\* Every create, update and upsert whose entity has a getter, each call run to
\* completion before the next starts.
NextRoundTrip ==
    \/ \E u \in Users : \E quest \in QuestRequired(u) :
          NoneInFlight /\ createQuarterlyQuest(quest)
    \/ \E questId \in Ids, u \in Users, updates \in QuestUpdates :
          NoneInFlight /\ updateQuarterlyQuest(questId, u, updates)
    \/ \E u \in Users : \E plan \in InsertWeeklyPlans(u, {"d1"}) :
          NoneInFlight /\ createWeeklyPlan(plan)
    \/ \E planId \in Ids, u \in Users, updates \in WeeklyPlanUpdates :
          NoneInFlight /\ updateWeeklyPlan(planId, u, updates)
    \/ \E u \in Users : \E task \in InsertDailyTasks(u, {"d1"}) :
          NoneInFlight /\ createDailyTask(task)
    \/ \E taskId \in Ids, u \in Users, updates \in OwnershipTaskUpdates :
          NoneInFlight /\ updateDailyTask(taskId, u, updates)
    \/ \E u \in Users : \E visionPlan \in InsertVisionPlans(u, {"x"}) :
          NoneInFlight /\ upsertVisionPlanRead(1, visionPlan)
    \/ \E c \in Calls : upsertVisionPlanWrite(c)
    \/ \E u \in Users :
          \E reflection \in InsertDailyReflections(u, {"d1"}, {"r1"}) :
             NoneInFlight /\ upsertDailyReflectionRead(1, reflection)
    \/ \E c \in Calls : upsertDailyReflectionWrite(c)

SpecRoundTrip == Init /\ [][NextRoundTrip]_vars

\* Every writing operation of the layer, each call run to completion before
\* the next starts.
NextLayer ==
    \/ \E user \in UpsertUsers({"e1"}, {"f1"}) : NoneInFlight /\ upsertUser(user)
    \/ \E u \in Users : \E visionPlan \in InsertVisionPlans(u, {"x"}) :
          NoneInFlight /\ upsertVisionPlanRead(1, visionPlan)
    \/ \E c \in Calls : upsertVisionPlanWrite(c)
    \/ \E u \in Users : \E quest \in QuestRequired(u) :
          NoneInFlight /\ createQuarterlyQuest(quest)
    \/ \E questId \in Ids, u \in Users, updates \in [progress : {50}] :
          NoneInFlight /\ updateQuarterlyQuest(questId, u, updates)
    \/ \E u \in Users : \E plan \in InsertWeeklyPlans(u, {"d1"}) :
          NoneInFlight /\ createWeeklyPlan(plan)
    \/ \E planId \in Ids, u \in Users, updates \in [progress : {50}] :
          NoneInFlight /\ updateWeeklyPlan(planId, u, updates)
    \/ \E u \in Users : \E task \in TaskRequired(u, {"d1"}) :
          NoneInFlight /\ createDailyTask(task)
    \/ \E taskId \in Ids, u \in Users, updates \in [isCompleted : {TRUE}] :
          NoneInFlight /\ updateDailyTask(taskId, u, updates)
    \/ \E taskId \in Ids, u \in Users :
          NoneInFlight /\ deleteDailyTask(taskId, u)
    \/ \E u \in Users :
          \E session \in InsertPomodoroSessions(u, Ids \cup {NullId}, {1500},
                                                ClientTimestamps({"d1"}, {1})) :
             NoneInFlight /\ createPomodoroSession(session)
    \/ \E u \in Users :
          \E reflection \in InsertDailyReflections(u, {"d1"}, {"r1"}) :
             NoneInFlight /\ upsertDailyReflectionRead(1, reflection)
    \/ \E c \in Calls : upsertDailyReflectionWrite(c)
    \/ \E errorLog \in InsertErrorLogs : NoneInFlight /\ createErrorLog(errorLog)

SpecLayer == Init /\ [][NextLayer]_vars

\* Quests, weekly plans linked to a quest, tasks linked to a plan and sessions
\* linked to a task.
LinkedWeeklyPlans(u) ==
    InsertWeeklyPlans(u, {"d1"}) \cup
    [userId : {u}, weekStartDate : {"d1"}, quarterlyQuestId : Ids]

LinkedDailyTasks(u) ==
    TaskRequired(u, {"d1"}) \cup
    [userId : {u}, title : {"a"}, impact : {"high"}, date : {"d1"},
     weeklyPlanId : Ids]

NextCoupled ==
    \/ \E u \in Users : \E quest \in QuestRequired(u) : createQuarterlyQuest(quest)
    \/ \E u \in Users : \E plan \in LinkedWeeklyPlans(u) : createWeeklyPlan(plan)
    \/ \E planId \in Ids, u \in Users, updates \in [progress : {50}] :
          updateWeeklyPlan(planId, u, updates)
    \/ \E u \in Users : \E task \in LinkedDailyTasks(u) : createDailyTask(task)
    \/ \E taskId \in Ids, u \in Users, updates \in [isCompleted : {TRUE}] :
          updateDailyTask(taskId, u, updates)
    \/ \E u \in Users :
          \E session \in InsertPomodoroSessions(u, Ids \cup {NullId}, {1500},
                                                ClientTimestamps({"d1"}, {1})) :
             createPomodoroSession(session)

SpecCoupled == Init /\ [][NextCoupled]_vars

\* Partial updates of quests, weekly plans and daily tasks, some of them
\* carrying an updatedAt of the caller's.
StampedQuestUpdates ==
    [isActive : {FALSE}] \cup [title : {"b"}, updatedAt : {NullTime}]

StampedWeeklyPlanUpdates ==
    [progress : {50}] \cup [progress : {50}, updatedAt : {NullTime}]

StampedTaskUpdates ==
    [isCompleted : BOOLEAN] \cup [title : {"b"}, updatedAt : {NullTime}]
        \cup [isCompleted : {TRUE}, description : {"c"}]

NextPatch ==
    \/ Tick
    \/ \E u \in Users : \E quest \in QuestRequired(u) :
          createQuarterlyQuest(quest)
    \/ \E questId \in Ids, u \in Users, updates \in StampedQuestUpdates :
          updateQuarterlyQuest(questId, u, updates)
    \/ \E u \in Users : \E plan \in InsertWeeklyPlans(u, {"d1"}) :
          createWeeklyPlan(plan)
    \/ \E planId \in Ids, u \in Users, updates \in StampedWeeklyPlanUpdates :
          updateWeeklyPlan(planId, u, updates)
    \/ \E u \in Users : \E task \in TaskRequired(u, {"d1"}) :
          createDailyTask(task)
    \/ \E taskId \in Ids, u \in Users, updates \in StampedTaskUpdates :
          updateDailyTask(taskId, u, updates)

SpecPatch == Init /\ [][NextPatch]_vars

\* ----------------------------------------------------------- store failures
\* The methods that issue one statement, and the two that issue a lookup and
\* then a write.
Getters == {"getUser", "getVisionPlan", "getQuarterlyQuests", "getWeeklyPlans",
            "getDailyTasks", "getPomodoroStats", "getDailyReflection"}

SingleStatementOps ==
    Getters \cup {"createQuarterlyQuest", "updateQuarterlyQuest",
                  "createWeeklyPlan", "updateWeeklyPlan", "createDailyTask",
                  "updateDailyTask", "deleteDailyTask", "createPomodoroSession",
                  "createErrorLog"}

UpsertOps == {"upsertVisionPlan", "upsertDailyReflection"}

\* A call whose n-th awaited statement the store rejected: the await throws,
\* no method catches, and the promise of the call rejects.
Failed(op, n) ==
    [op |-> op, threw |-> TRUE, result |-> {}, statement |-> n]

\* The one statement of a method fails: nothing is written.
statementFails(op) ==
    /\ op \in SingleStatementOps
    /\ lastCall' = Failed(op, 1)
    /\ UNCHANGED <<tables, nextId, clock, request, timer, inflight>>

\* The lookup of an upsert fails: the method is left before its if.
upsertReadFails(c, op) ==
    /\ op \in UpsertOps
    /\ inflight[c] = Idle
    /\ lastCall' = Failed(op, 1)
    /\ UNCHANGED <<tables, nextId, clock, request, timer, inflight>>

\* A failed write that is issued again: the call stays between its lookup and
\* its write.
upsertWriteRetried(c) ==
    /\ inflight[c] # Idle
    /\ lastCall' = Failed(inflight[c].op, 2)
    /\ UNCHANGED <<tables, nextId, clock, request, timer, inflight>>

\* The update or insert of an upsert fails after its lookup succeeded: the
\* statement writes nothing and the call is over.
upsertWriteFails(c) ==
    /\ inflight[c] # Idle
    /\ lastCall' = Failed(inflight[c].op, 2)
    /\ inflight' = [inflight EXCEPT ![c] = Idle]
    /\ UNCHANGED <<tables, nextId, clock, request, timer>>

\* Requests handled concurrently over a store that may reject any statement.
NextFailures ==
    \/ \E u \in Users : \E visionPlan \in InsertVisionPlans(u, {"x"}) :
          upsertVisionPlanRead(FreeCall, visionPlan)
    \/ \E c \in Calls : upsertVisionPlanWrite(c)
    \/ \E reflection \in InsertDailyReflections("u1", {"d1"}, {"r1"}) :
          upsertDailyReflectionRead(FreeCall, reflection)
    \/ \E c \in Calls : upsertDailyReflectionWrite(c)
    \/ \E task \in TaskRequired("u1", {"d1"}) : createDailyTask(task)
    \/ \E taskId \in Ids : deleteDailyTask(taskId, "u1")
    \/ \E op \in {"getVisionPlan", "createDailyTask", "deleteDailyTask"} :
          statementFails(op)
    \/ \E op \in UpsertOps : upsertReadFails(FreeCall, op)
    \/ \E c \in Calls : upsertWriteFails(c)

SpecFailures == Init /\ [][NextFailures]_vars

\* ------------------------------------------------------------------ routes
\* The status a PATCH route answers with: res.json(row) of what the storage
\* call resolved with, or 400 from its catch.
PatchStatus(call) == IF call.threw THEN 400 ELSE 200

\* The status any route answers with: 200 with res.json of what the call
\* resolved with, and from its catch 500 in the GET routes, 400 in the others.
RouteStatus(call) ==
    IF ~call.threw THEN 200
    ELSE IF call.op \in Getters THEN 500 ELSE 400

\* The routes registered with the isAuthenticated middleware, and the one
\* registered without it.
AuthenticatedRoutes ==
    {"GET /api/vision", "POST /api/vision", "POST /api/quarterly-quests",
     "POST /api/weekly-plans", "POST /api/daily-tasks",
     "PATCH /api/daily-tasks/:id", "DELETE /api/daily-tasks/:id",
     "POST /api/pomodoro-sessions", "POST /api/daily-reflections"}

PublicRoutes == {"POST /api/error-logs"}

\* Routes whose path carries the id of a row.
RoutesWithId == {"PATCH /api/daily-tasks/:id", "DELETE /api/daily-tasks/:id"}

\* Registration leaves the GET routes without the middleware.
RequiresAuthOnWrites(route) ==
    route \in AuthenticatedRoutes \ {"GET /api/vision"}

\* app.get(path, isAuthenticated, handler): the handler runs behind the
\* middleware.
RequiresAuth(route) == route \in AuthenticatedRoutes

\* The middleware: the request carries a session of a user.
isAuthenticated(req) == req.session # NoSession

\* The columns each insert schema keeps, and those it requires.
SchemaColumns(route) ==
    CASE route = "POST /api/vision" ->
            {"userId", "coreValues", "threeYearVision", "whyEngine"}
      [] route = "POST /api/quarterly-quests" ->
            {"userId", "title", "goal", "plan", "systems", "quarter", "year",
             "progress", "isActive"}
      [] route = "POST /api/weekly-plans" ->
            {"userId", "quarterlyQuestId", "weekStartDate", "priorities",
             "reflection", "progress"}
      [] route = "POST /api/daily-tasks" ->
            {"userId", "weeklyPlanId", "title", "description", "impact",
             "isCompleted", "date", "pomodoroCount"}
      [] route = "POST /api/pomodoro-sessions" ->
            {"userId", "taskId", "duration", "type", "completedAt"}
      [] route = "POST /api/daily-reflections" ->
            {"userId", "date", "reflection", "tomorrowPriority", "energyLevel"}
      [] OTHER -> {}

SchemaRequired(route) ==
    CASE route = "POST /api/vision" -> {"userId"}
      [] route = "POST /api/quarterly-quests" ->
            {"userId", "title", "goal", "plan", "systems", "quarter", "year"}
      [] route = "POST /api/weekly-plans" -> {"userId", "weekStartDate"}
      [] route = "POST /api/daily-tasks" -> {"userId", "title", "impact", "date"}
      [] route = "POST /api/pomodoro-sessions" ->
            {"userId", "duration", "type", "completedAt"}
      [] route = "POST /api/daily-reflections" -> {"userId", "date"}
      [] OTHER -> {}

\* { userId, ...req.body }: a userId of the body wins.
BodyOverSession(body, userId) == Spread([userId |-> userId], body)

\* { ...req.body, userId }
SessionOverBody(body, userId) == Spread(body, [userId |-> userId])

\* schema.parse(data): the data cut to the schema's columns, or no value when a
\* required column is missing (parse throws).
Parse(route, data) ==
    IF SchemaRequired(route) \subseteq DOMAIN data
    THEN { [f \in DOMAIN data \cap SchemaColumns(route) |-> data[f]] }
    ELSE {}

\* const validatedData = schema.parse({ ...req.body, userId })
validatedData(req) ==
    Parse(req.route, SessionOverBody(req.body, req.session))

\* Request bodies, with and without a userId of their own.
WithUserId(bodies) ==
    bodies \cup { Spread(b, [userId |-> "u2"]) : b \in bodies }

Bodies(route) ==
    CASE route = "POST /api/vision" ->
            WithUserId([coreValues : {<<"v1", "v2", "v3">>}])
      [] route = "POST /api/quarterly-quests" ->
            WithUserId([title : {"a"}, goal : {"g"}, plan : {"p"},
                        systems : {"s"}, quarter : {"Q1"}, year : {2024}])
               \cup [title : {"a"}]
      [] route = "POST /api/weekly-plans" ->
            WithUserId([weekStartDate : {"d1"}])
      [] route = "POST /api/daily-tasks" ->
            WithUserId([title : {"a"}, impact : {"high"}, date : {"d1"}])
      [] route = "PATCH /api/daily-tasks/:id" -> [isCompleted : {TRUE}]
      [] route = "POST /api/pomodoro-sessions" ->
            WithUserId([taskId : {NullId}, duration : {1500}, type : {"work"},
                        completedAt : ClientTimestamps({"d1"}, {1})])
      [] route = "POST /api/daily-reflections" ->
            WithUserId([date : {"d1"}, reflection : {"r1"}])
      [] route = "POST /api/error-logs" -> InsertErrorLogs
      [] OTHER -> { [title |-> "a"] }

\* A request answered without a storage call.
Answered(status) ==
    [op |-> "none", threw |-> FALSE, result |-> {}, status |-> status]

\* A request whose handler has been entered and has not answered.
Entered == [op |-> "pending", threw |-> FALSE, result |-> {}]

\* The server takes a request once it has answered the one before: the
\* middleware answers 401 or passes it on to the handler.
receive(route, session, id, body) ==
    /\ lastCall.op # "pending"
    /\ NoneInFlight
    /\ LET req == [route |-> route, session |-> session, id |-> id, body |-> body]
       IN /\ request' = req
          /\ lastCall' = IF RequiresAuth(route) /\ ~isAuthenticated(req)
                         THEN Answered(401) ELSE Entered
    /\ UNCHANGED <<tables, nextId, clock, inflight, timer>>

\* The handler of route has the request.
Handling(route) ==
    /\ lastCall.op = "pending"
    /\ NoneInFlight
    /\ request.route = route

\* The catch of a POST handler, entered from a parse that threw.
invalid(route) ==
    /\ Handling(route)
    /\ validatedData(request) = {}
    /\ lastCall' = Answered(400)
    /\ UNCHANGED <<tables, nextId, clock, inflight, request, timer>>

getVision ==
    /\ Handling("GET /api/vision")
    /\ lastCall' \in Got("getVisionPlan", getVisionPlan(request.session))
    /\ UNCHANGED <<tables, nextId, clock, inflight, request, timer>>

postVision ==
    /\ Handling("POST /api/vision")
    /\ \E visionPlan \in validatedData(request) :
          upsertVisionPlanRead(1, visionPlan)

postQuarterlyQuests ==
    /\ Handling("POST /api/quarterly-quests")
    /\ \E quest \in validatedData(request) : createQuarterlyQuest(quest)

postWeeklyPlans ==
    /\ Handling("POST /api/weekly-plans")
    /\ \E plan \in validatedData(request) : createWeeklyPlan(plan)

postDailyTasks ==
    /\ Handling("POST /api/daily-tasks")
    /\ \E task \in validatedData(request) : createDailyTask(task)

patchDailyTasks ==
    /\ Handling("PATCH /api/daily-tasks/:id")
    /\ updateDailyTask(request.id, request.session, request.body)

deleteDailyTasks ==
    /\ Handling("DELETE /api/daily-tasks/:id")
    /\ deleteDailyTask(request.id, request.session)

postPomodoroSessions ==
    /\ Handling("POST /api/pomodoro-sessions")
    /\ \E session \in validatedData(request) : createPomodoroSession(session)

postDailyReflections ==
    /\ Handling("POST /api/daily-reflections")
    /\ \E reflection \in validatedData(request) :
          upsertDailyReflectionRead(1, reflection)

postErrorLogs ==
    /\ Handling("POST /api/error-logs")
    /\ createErrorLog(request.body)

\* Requests with and without a session, handled one after another.
NextRoutes ==
    \/ \E route \in AuthenticatedRoutes \cup PublicRoutes,
          session \in Users \cup {NoSession} :
          \E id \in (IF route \in RoutesWithId THEN Ids ELSE {NullId}),
             body \in Bodies(route) :
             receive(route, session, id, body)
    \/ \E route \in AuthenticatedRoutes : invalid(route)
    \/ getVision
    \/ postVision
    \/ upsertVisionPlanWrite(1)
    \/ postQuarterlyQuests
    \/ postWeeklyPlans
    \/ postDailyTasks
    \/ patchDailyTasks
    \/ deleteDailyTasks
    \/ postPomodoroSessions
    \/ postDailyReflections
    \/ upsertDailyReflectionWrite(1)
    \/ postErrorLogs

SpecRoutes == Init /\ [][NextRoutes]_vars

\* ------------------------------------------------------------ client state
\* A text column as a JavaScript condition: null and "" are falsy.
Truthy(text) == text # NullText /\ text # ""

\* useOnboarding over the vision plan GET /api/vision answered (the set of
\* one row, or the empty set for undefined) and the quests GET
\* /api/quarterly-quests answered.
hasLifeCompass(visionPlan) ==
    \E p \in visionPlan :
       /\ Len(p.coreValues) # 0
       /\ Truthy(p.threeYearVision)
       /\ Truthy(p.whyEngine)

hasVisionBoard(visionPlan) == hasLifeCompass(visionPlan)

hasQuarterlyQuests(quests) ==
    Cardinality(quests) # 0 /\ \E q \in quests : q.isActive

isOnboardingComplete(visionPlan, quests) ==
    hasLifeCompass(visionPlan) /\ hasVisionBoard(visionPlan)
       /\ hasQuarterlyQuests(quests)

\* isComplete of the life-compass page, over the same vision plan.
isComplete(visionPlan) ==
    \E p \in visionPlan :
       /\ Len(p.coreValues) # 0
       /\ Len(p.coreValues) >= 3
       /\ Truthy(p.threeYearVision)
       /\ Truthy(p.whyEngine)

\* The vision plans and quests the client's queries fetch.
NextOnboarding ==
    \/ \E u \in Users : \E visionPlan \in InsertVisionPlans(u, {"x"}) :
          NoneInFlight /\ upsertVisionPlanRead(1, visionPlan)
    \/ upsertVisionPlanWrite(1)
    \/ \E u \in Users : \E quest \in InsertQuarterlyQuests(u) :
          NoneInFlight /\ createQuarterlyQuest(quest)
    \/ \E questId \in Ids, u \in Users, updates \in [isActive : BOOLEAN] :
          NoneInFlight /\ updateQuarterlyQuest(questId, u, updates)

SpecOnboarding == Init /\ [][NextOnboarding]_vars

\* ------------------------------------------------------------ the timer
\* The PomodoroTimer component: its state (isRunning, timeLeft, timerType,
\* currentTaskId), whether the interval of its countdown effect is set, and
\* whether a render changed the effect's dependencies since the effect last
\* ran (stale). posts are the sessions handed to completePomodoroMutation,
\* countdowns the number of times the interval brought timeLeft to zero.
TimerTypes == {"work", "break"}

\* timerType === "work" ? workDuration : breakDuration
FullLength(type) == IF type = "work" THEN workDuration ELSE breakDuration

\* The component after a render: the countdown effect is run again when
\* isRunning or timeLeft is not what it was.
Rendered(before, after) ==
    [after EXCEPT !.stale = \/ after.isRunning # before.isRunning
                            \/ after.timeLeft # before.timeLeft]

\* A handler or a timer callback runs once the effects of the last render ran.
EffectsFlushed == ~timer.stale

\* What a step of the component leaves alone.
exceptTimer == <<tables, nextId, clock, lastCall, inflight, request>>

\* handleTimerComplete that leaves timeLeft at zero.
handleTimerCompleteAtZero(t) ==
    [t EXCEPT !.isRunning = FALSE,
              !.posts = Append(@, [taskId |-> t.currentTaskId,
                                   duration |-> FullLength(t.timerType),
                                   type |-> t.timerType]),
              !.timerType = IF t.timerType = "work" THEN "break" ELSE "work"]

\* handleTimerComplete: stop, submit the session that ran, and set the timer to
\* the full length of the other type.
handleTimerComplete(t) ==
    LET duration == FullLength(t.timerType)
        nextType == IF t.timerType = "work" THEN "break" ELSE "work"
    IN [t EXCEPT !.isRunning = FALSE,
                 !.posts = Append(@, [taskId |-> t.currentTaskId,
                                      duration |-> duration,
                                      type |-> t.timerType]),
                 !.timerType = nextType,
                 !.timeLeft = FullLength(nextType)]

\* The interval set by the effect fires: setTimeLeft(prev => prev - 1).
intervalFires ==
    /\ EffectsFlushed
    /\ timer.interval
    /\ timer.timeLeft = 1 => timer.countdowns < MaxCountdowns
    /\ timer' = Rendered(timer,
                  [timer EXCEPT !.timeLeft = @ - 1,
                                !.countdowns = IF timer.timeLeft = 1
                                               THEN @ + 1 ELSE @])
    /\ UNCHANGED exceptTimer

\* The countdown effect: the cleanup of its last run clears the interval, then
\* it sets a new one, or completes the countdown, or leaves the timer stopped.
countdownEffect ==
    /\ timer.stale
    /\ LET t == [timer EXCEPT !.stale = FALSE, !.interval = FALSE]
       IN timer' = IF t.isRunning /\ t.timeLeft > 0
                   THEN [t EXCEPT !.interval = TRUE]
                   ELSE IF t.timeLeft = 0
                        THEN Rendered(t, handleTimerComplete(t))
                        ELSE t
    /\ UNCHANGED exceptTimer

toggleTimer ==
    /\ EffectsFlushed
    /\ timer' = Rendered(timer, [timer EXCEPT !.isRunning = ~@])
    /\ UNCHANGED exceptTimer

stopTimer ==
    /\ EffectsFlushed
    /\ timer' = Rendered(timer,
                  [timer EXCEPT !.isRunning = FALSE,
                                !.timeLeft = FullLength(timer.timerType)])
    /\ UNCHANGED exceptTimer

resetTimer ==
    /\ EffectsFlushed
    /\ timer' = Rendered(timer,
                  [timer EXCEPT !.isRunning = FALSE,
                                !.timerType = "work",
                                !.timeLeft = workDuration,
                                !.currentTaskId = NullId])
    /\ UNCHANGED exceptTimer

switchTimerType(type) ==
    /\ EffectsFlushed
    /\ timer' = Rendered(timer,
                  [timer EXCEPT !.isRunning = FALSE,
                                !.timerType = type,
                                !.timeLeft = FullLength(type)])
    /\ UNCHANGED exceptTimer

\* The timer alone: the user's buttons, the interval and the effect.
NextTimer ==
    \/ intervalFires
    \/ countdownEffect
    \/ toggleTimer
    \/ stopTimer
    \/ resetTimer
    \/ \E type \in TimerTypes : switchTimerType(type)

SpecTimer == Init /\ [][NextTimer]_vars

\* ================================================================ claims

\* C1: updateQuarterlyQuest(Q.id, U2, updates) on a quest Q owned by
\* U1 # U2 fails (its promise rejects) and leaves every field of Q unchanged.
C1_CrossUserUpdateFails ==
    [][\A questId \in Ids, u \in Users, updates \in QuestUpdates :
          ( /\ updateQuarterlyQuest(questId, u, updates)
            /\ \E q \in quarterlyQuests : q.id = questId /\ q.userId # u )
          => /\ lastCall'.threw
             /\ quarterlyQuests' = quarterlyQuests]_vars

\* The half of C1 the code keeps: the quest of another user is left as it was.
C1_CrossUserUpdateKeepsQuest ==
    [][\A questId \in Ids, u \in Users, updates \in QuestUpdates :
          ( /\ updateQuarterlyQuest(questId, u, updates)
            /\ \E q \in quarterlyQuests : q.id = questId /\ q.userId # u )
          => quarterlyQuests' = quarterlyQuests]_vars

\* C2: every read called with userId U returns or counts only rows whose
\* userId is U: the rows the getters return are all U's, and getPomodoroStats
\* gives what it gives on the table with every other user's row removed.
C2_ReadsScopedToCaller ==
    \A u \in Users :
       /\ \A p \in getVisionPlan(u) : p.userId = u
       /\ \A q \in getQuarterlyQuests(u) : q.userId = u
       /\ \A d \in Dates \cup {NullText} :
             /\ \A p \in getWeeklyPlans(u, d) : p.userId = u
             /\ \A t \in getDailyTasks(u, d) : t.userId = u
             /\ getPomodoroStats(u, d) =
                   PomodoroStats({ s \in pomodoroSessions : s.userId = u }, u, d)
       /\ \A d \in Dates : \A r \in getDailyReflection(u, d) : r.userId = u

\* C2 witness: both users hold a work session of the same date, so a count
\* over the whole table would differ from the caller's.
C2_TwoUsersHaveSessions ==
    \E s1, s2 \in pomodoroSessions :
       /\ s1.userId = "u1" /\ s2.userId = "u2"
       /\ s1.type = "work" /\ s2.type = "work"
       /\ s1.completedAt.date = s2.completedAt.date
       /\ getPomodoroStats("u1", NullText).completedPomodoros = 1

\* The rows of a table that a call by userId must leave alone.
RowsOfOthers(table, userId) == { r \in table : r.userId # userId }

\* C3: updateWeeklyPlan, updateDailyTask and deleteDailyTask called by U2 with
\* the id of a row of U1 # U2 leave that row, and every other row not owned by
\* U2, unchanged and present.
C3_CrossUserWritesLeaveRows ==
    [][\A id \in Ids, u \in Users :
          /\ lastCall'.op = "updateWeeklyPlan"
                => \A updates \in WeeklyPlanUpdates :
                      updateWeeklyPlan(id, u, updates)
                         => /\ RowsOfOthers(weeklyPlans, u) \subseteq weeklyPlans'
                            /\ dailyTasks' = dailyTasks
          /\ lastCall'.op = "updateDailyTask"
                => \A updates \in OwnershipTaskUpdates :
                      updateDailyTask(id, u, updates)
                         => /\ RowsOfOthers(dailyTasks, u) \subseteq dailyTasks'
                            /\ weeklyPlans' = weeklyPlans
          /\ lastCall'.op = "deleteDailyTask"
                => ( deleteDailyTask(id, u)
                        => /\ RowsOfOthers(dailyTasks, u) \subseteq dailyTasks'
                           /\ weeklyPlans' = weeklyPlans )]_vars

\* C3 witness: every id is a task of u1, and the last call, an updateDailyTask,
\* matched no row: it was u2's, with the id of a task of u1.
C3_CrossUserUpdateHappened ==
    /\ \A id \in Ids : \E t \in dailyTasks : t.id = id /\ t.userId = "u1"
    /\ lastCall.op = "updateDailyTask"
    /\ ~lastCall.threw
    /\ lastCall.result = {}

\* C4: for every DailyTask, completedAt is non-null exactly when isCompleted
\* is true, whatever createDailyTask and updateDailyTask calls were made.
C4_CompletedAtIffCompleted ==
    \A t \in dailyTasks : (t.completedAt # NullTime) <=> t.isCompleted

\* C5: on a task of the caller, updateDailyTask with isCompleted true leaves
\* completedAt non-null and with isCompleted false leaves it null, whatever
\* other fields the same call patches.
C5_CompletedAtFollowsPatch ==
    ( /\ lastCall.op = "updateDailyTask"
      /\ ~lastCall.threw
      /\ "isCompleted" \in DOMAIN lastCall.updates )
    => \A t \in lastCall.result :
          /\ t \in dailyTasks
          /\ t.isCompleted = lastCall.updates.isCompleted
          /\ lastCall.updates.isCompleted => t.completedAt # NullTime
          /\ ~lastCall.updates.isCompleted => t.completedAt = NullTime

\* C5 witness: an update that set isCompleted to false, and with it a non-null
\* completedAt of the caller's, returned its task, changed since its creation,
\* with completedAt null.
C5_ClearedWithOtherField ==
    /\ lastCall.op = "updateDailyTask"
    /\ ~lastCall.threw
    /\ lastCall.updates \in [isCompleted : {FALSE}, completedAt : {MaxClock}]
    /\ \E t \in lastCall.result :
          /\ t \in dailyTasks
          /\ ~t.isCompleted /\ t.completedAt = NullTime
          /\ t.updatedAt > t.createdAt

\* The task with this id after a call (ids are the primary key).
TaskAfter(taskId) == { t \in dailyTasks' : t.id = taskId }

\* C6: whatever PATCH /api/daily-tasks/:id sends, the completedAt stored is
\* the one derived from isCompleted (now for true, null for false), never the
\* value the caller supplied: with no isCompleted to derive it from, a
\* completedAt in the body changes nothing.
C6_CallerCompletedAtIgnored ==
    [][\A taskId \in Ids, u \in Users, updates \in TaskUpdates :
          ( /\ "completedAt" \in DOMAIN updates
            /\ updateDailyTask(taskId, u, updates) )
          => \A t \in TaskMatched(taskId, u) : \A t2 \in TaskAfter(taskId) :
                t2.completedAt =
                   IF "isCompleted" \in DOMAIN updates
                   THEN (IF updates.isCompleted THEN clock ELSE NullTime)
                   ELSE t.completedAt]_vars

\* The vision plans of a user in a content of vision_plans.
PlansOf(table, userId) == { p \in table : p.userId = userId }

C8_UpsertUpdatesInPlace ==
    [][/\ \A u \in Users : Cardinality(PlansOf(visionPlans', u)) <= 1
       /\ \A c \in Calls :
             upsertVisionPlanWrite(c)
             => LET payload == inflight[c].payload
                    before  == PlansOf(visionPlans, payload.userId)
                    after   == PlansOf(visionPlans', payload.userId)
                IN /\ UserExists(payload.userId) => Cardinality(after) = 1
                   /\ \A p \in after : \A f \in DOMAIN payload : p[f] = payload[f]
                   /\ before # {}
                         => /\ Cardinality(visionPlans') = Cardinality(visionPlans)
                            /\ \A p \in after : \E q \in before :
                                  /\ p.id = q.id
                                  /\ p.updatedAt = clock
                                  /\ \A f \in DOMAIN q \ (DOMAIN payload \cup {"updatedAt"}) :
                                        p[f] = q[f]]_vars

\* C8 witness: an upsert with the payload of coreValues alone updated a plan
\* that keeps the threeYearVision of an earlier upsert.
C8_PartialUpsertKeptColumn ==
    /\ lastCall.op = "upsertVisionPlan"
    /\ ~lastCall.threw
    /\ "threeYearVision" \notin DOMAIN lastCall.payload
    /\ \E p \in lastCall.result :
          /\ p \in visionPlans
          /\ p.threeYearVision = "x"
          /\ p.coreValues = lastCall.payload.coreValues
          /\ p.updatedAt > p.createdAt

\* C8, as stated: after an upsert the user's row has the fields of that upsert,
\* a column its payload does not carry being null.
C8_RowIsLatestPayload ==
    ( lastCall.op = "upsertVisionPlan" /\ ~lastCall.threw /\ NoneInFlight )
    => \A p \in PlansOf(visionPlans, lastCall.payload.userId) :
          \A f \in DOMAIN VisionPlanNulls :
             p[f] = Spread(VisionPlanNulls, lastCall.payload)[f]

\* The reflections of a key (userId, date) in a content of daily_reflections.
ReflectionsOf(table, userId, date) ==
    { r \in table : r.userId = userId /\ r.date = date }

\* C9: with requests handled concurrently, a row is added for a key that has
\* one only by an upsert whose lookup, made before that row was there, found
\* none; two rows for one key are then reachable (the witness).
C9_SecondRowOnlyAfterStaleLookup ==
    [][\A c \in Calls :
          /\ upsertVisionPlanWrite(c)
                => LET userId == inflight[c].payload.userId
                   IN ( /\ PlansOf(visionPlans, userId) # {}
                        /\ Cardinality(PlansOf(visionPlans', userId)) >
                              Cardinality(PlansOf(visionPlans, userId)) )
                      => inflight[c].existing = {}
          /\ upsertDailyReflectionWrite(c)
                => LET userId == inflight[c].payload.userId
                       date   == inflight[c].payload.date
                   IN ( /\ ReflectionsOf(dailyReflections, userId, date) # {}
                        /\ Cardinality(ReflectionsOf(dailyReflections', userId, date)) >
                              Cardinality(ReflectionsOf(dailyReflections, userId, date)) )
                      => inflight[c].existing = {}]_vars

\* C9 witness: two vision plans of one user, each inserted by an upsert whose
\* lookup found none, and no upsert left between its lookup and its write.
C9_TwoPlansForOneUser ==
    /\ NoneInFlight
    /\ lastCall.op = "upsertVisionPlan"
    /\ \E p, q \in visionPlans :
          /\ p.id # q.id
          /\ p.userId = q.userId
          /\ lastCall.result = {q}

\* The same for upsertDailyReflection: two reflections of one (userId, date).
C9_TwoReflectionsForOneKey ==
    \E r, q \in dailyReflections :
       r.id # q.id /\ r.userId = q.userId /\ r.date = q.date

\* C10: with each upsertDailyReflection run to completion before the next
\* starts, an upsert for (userId, date), the user a row of users, adds a row when the key has none and
\* otherwise keeps the row count, leaves exactly one row for the key, holding
\* the payload's fields, and leaves the rows of every other date and user as
\* they were.
C10_KeyedByUserAndDate ==
    [][/\ \A u \in Users, d \in Dates :
             Cardinality(ReflectionsOf(dailyReflections', u, d)) <= 1
       /\ \A c \in Calls :
             ( /\ inflight[c].op = "upsertDailyReflection"
               /\ UserExists(inflight[c].payload.userId)
               /\ upsertDailyReflectionWrite(c) )
             => LET payload == inflight[c].payload
                    before  == ReflectionsOf(dailyReflections,
                                             payload.userId, payload.date)
                    after   == ReflectionsOf(dailyReflections',
                                             payload.userId, payload.date)
                IN /\ dailyReflections' \ after = dailyReflections \ before
                   /\ Cardinality(after) = 1
                   /\ \A r \in after : \A f \in DOMAIN payload : r[f] = payload[f]
                   /\ before = {}
                         => Cardinality(dailyReflections') =
                               Cardinality(dailyReflections) + 1
                   /\ before # {}
                         => /\ Cardinality(dailyReflections') =
                                  Cardinality(dailyReflections)
                            /\ \A r \in after : \E q \in before : r.id = q.id]_vars

\* C10 witness: a user holds a reflection for each of two dates, the last
\* upsert having written its payload over the one it found for its date.
C10_TwoDatesSecondPayload ==
    /\ lastCall.op = "upsertDailyReflection"
    /\ ~lastCall.threw
    /\ \E r \in lastCall.result :
          /\ r \in dailyReflections
          /\ r.reflection = "r2"
          /\ lastCall.payload \in InsertDailyReflections(r.userId, {r.date}, {"r2"})
          /\ r.updatedAt > r.createdAt
          /\ \E q \in dailyReflections : q.userId = r.userId /\ q.date # r.date

\* C11: updateQuarterlyQuest, updateWeeklyPlan and updateDailyTask fail when
\* their id and userId match no row, and the PATCH route does not answer such
\* a request with success: no update ends with no row and no error.
C11_ZeroRowUpdateSignalsFailure ==
    ( /\ lastCall.op \in {"updateQuarterlyQuest", "updateWeeklyPlan",
                          "updateDailyTask"}
      /\ lastCall.result = {} )
    => /\ lastCall.threw
       /\ PatchStatus(lastCall) # 200

\* C12: deleteDailyTask with an id and userId that match no row resolves
\* without error and leaves every table as it was; with a matching pair it
\* removes that task and no other row of any table.
C12_DeleteRemovesOnlyItsTask ==
    [][\A taskId \in Ids, u \in Users :
          ( /\ lastCall'.op = "deleteDailyTask"
            /\ deleteDailyTask(taskId, u) )
          => LET own == { t \in dailyTasks : t.id = taskId /\ t.userId = u }
             IN /\ ~lastCall'.threw
                /\ own = {} => tables' = tables
                /\ own # {}
                      => /\ Cardinality(own) = 1
                         /\ dailyTasks' = dailyTasks \ own
                         /\ { s.id : s \in pomodoroSessions' } =
                               { s.id : s \in pomodoroSessions }
                         /\ UNCHANGED <<users, visionPlans, quarterlyQuests,
                                        weeklyPlans, dailyReflections,
                                        errorLogs>>]_vars

\* C12 witness: the last call was a deleteDailyTask, there are tasks, and every
\* id the store gave out is still a row: that delete, and any before it,
\* matched nothing.
C12_DeleteMatchedNothing ==
    /\ lastCall.op = "deleteDailyTask"
    /\ ~lastCall.threw
    /\ dailyTasks # {}
    /\ Cardinality(dailyTasks) + Cardinality(pomodoroSessions) = nextId - 1

\* The work sessions of a user, and those of them of one duration.
WorkSessionsOf(userId) ==
    { s \in pomodoroSessions : s.userId = userId /\ s.type = "work" }

WorkSessionsOfLength(userId, duration) ==
    { s \in WorkSessionsOf(userId) : s.duration = duration }

\* C13: getPomodoroStats(userId) gives as totalFocusTime the sum of the
\* durations of the user's work sessions, as completedPomodoros their number,
\* and as averageSessionLength the integer nearest to their quotient (halves
\* upward), or 0 of no work session; break sessions count for nothing.
C13_StatsOfWorkSessions ==
    \A u \in Users :
       LET stats == getPomodoroStats(u, NullText)
           n     == Cardinality(WorkSessionsOf(u))
       IN /\ stats.completedPomodoros = n
          /\ \A d1, d2 \in WorkDurations :
                d1 < d2 =>
                   stats.totalFocusTime =
                      d1 * Cardinality(WorkSessionsOfLength(u, d1))
                         + d2 * Cardinality(WorkSessionsOfLength(u, d2))
          /\ n > 0 =>
                /\ (2 * stats.averageSessionLength - 1) * n <= 2 * stats.totalFocusTime
                /\ 2 * stats.totalFocusTime < (2 * stats.averageSessionLength + 1) * n
          /\ n = 0 =>
                stats = [totalFocusTime |-> 0, completedPomodoros |-> 0,
                         averageSessionLength |-> 0]

\* C13 witness: a user's two work sessions differ in length by a second, and
\* the average, halfway between, is the longer.
C13_AverageRoundedUp ==
    \E s1, s2 \in WorkSessionsOf("u1") :
       /\ s2.duration = s1.duration + 1
       /\ getPomodoroStats("u1", NullText) =
             [totalFocusTime |-> s1.duration + s2.duration,
              completedPomodoros |-> 2,
              averageSessionLength |-> s2.duration]

\* The work sessions of a user completed on a calendar date.
WorkSessionsOn(userId, date) ==
    { s \in WorkSessionsOf(userId) : s.completedAt.date = date }

\* C14: getPomodoroStats(userId, date) counts exactly the user's work sessions
\* whose completedAt has that calendar date, at whatever time of the day, and
\* with no date all of the user's work sessions.
C14_StatsOfOneDay ==
    \A u \in Users :
       /\ \A d \in Dates :
             getPomodoroStats(u, d).completedPomodoros =
                Cardinality(WorkSessionsOn(u, d))
       /\ getPomodoroStats(u, NullText).completedPomodoros =
             Cardinality(WorkSessionsOf(u))

\* C14 witness: a user's work sessions of two days at different times of day,
\* one counted for each day and both without a date.
C14_SessionsOfTwoDays ==
    \E s1, s2 \in WorkSessionsOf("u1") :
       /\ s1.completedAt.date = "d1" /\ s2.completedAt.date = "d2"
       /\ s1.completedAt.time # s2.completedAt.time
       /\ getPomodoroStats("u1", "d1").completedPomodoros = 1
       /\ getPomodoroStats("u1", "d2").completedPomodoros = 1
       /\ getPomodoroStats("u1", NullText).completedPomodoros = 2

\* The other case of C14: two sessions of one day, at different times, are
\* both counted for that day.
C14_TwoSessionsOfOneDay ==
    \E s1, s2 \in WorkSessionsOn("u1", "d1") :
       /\ s1.completedAt.time # s2.completedAt.time
       /\ getPomodoroStats("u1", "d1").completedPomodoros = 2
       /\ getPomodoroStats("u1", "d2").completedPomodoros = 0

\* C15: getDailyTasks(userId, date) returns exactly the stored tasks of that
\* user and that date, and with no date exactly the user's tasks of every date;
\* getWeeklyPlans does the same by weekStartDate.
C15_ListsFilteredByDate ==
    \A u \in Users :
       /\ \A d \in Dates :
             /\ getDailyTasks(u, d) \subseteq dailyTasks
             /\ \A t \in dailyTasks :
                   t \in getDailyTasks(u, d) <=> (t.userId = u /\ t.date = d)
             /\ getWeeklyPlans(u, d) \subseteq weeklyPlans
             /\ \A p \in weeklyPlans :
                   p \in getWeeklyPlans(u, d) <=> (p.userId = u /\ p.weekStartDate = d)
       /\ getDailyTasks(u, NullText) \subseteq dailyTasks
       /\ \A t \in dailyTasks : t \in getDailyTasks(u, NullText) <=> t.userId = u
       /\ getWeeklyPlans(u, NullText) \subseteq weeklyPlans
       /\ \A p \in weeklyPlans : p \in getWeeklyPlans(u, NullText) <=> p.userId = u

\* C15 witness: a user has a task of each of two dates; the read of one date
\* returns one of them and the read with no date both.
C15_TasksOfTwoDates ==
    /\ Cardinality(getDailyTasks("u1", "d1")) = 1
    /\ Cardinality(getDailyTasks("u1", "d2")) = 1
    /\ Cardinality(getDailyTasks("u1", NullText)) = 2

\* The columns the store generates.
ServerGenerated == {"id", "createdAt", "updatedAt"}

\* A row without them.
DataOf(row) == [f \in DOMAIN row \ ServerGenerated |-> row[f]]

\* What the getter of an entity yields to the owner of a row that a call of
\* this name returned: the rows of a list, or each row a single-row getter
\* can come back with (none standing for undefined).
Refetched(op, row) ==
    CASE op \in {"createQuarterlyQuest", "updateQuarterlyQuest"}
            -> { {q} : q \in getQuarterlyQuests(row.userId) }
      [] op \in {"createWeeklyPlan", "updateWeeklyPlan"}
            -> { {p} : p \in getWeeklyPlans(row.userId, row.weekStartDate) }
      [] op \in {"createDailyTask", "updateDailyTask"}
            -> { {t} : t \in getDailyTasks(row.userId, row.date) }
      [] op = "upsertVisionPlan"
            -> FirstOf(getVisionPlan(row.userId))
      [] op = "upsertDailyReflection"
            -> FirstOf(getDailyReflection(row.userId, row.date))

\* Whether the call's entity has a getter that yields rows.
HasGetter(op) ==
    op \in {"createQuarterlyQuest", "updateQuarterlyQuest", "createWeeklyPlan",
            "updateWeeklyPlan", "createDailyTask", "updateDailyTask",
            "upsertVisionPlan", "upsertDailyReflection"}

\* C16: the row a create, update or upsert returned is, with no operation in
\* between, what its owner's getter yields, field for field but for the
\* generated id and timestamps: a list getter holds a row equal to it, and a
\* single-row getter comes back with nothing else.
C16_ReturnedRowIsRefetched ==
    ( HasGetter(lastCall.op) /\ ~lastCall.threw )
    => \A row \in lastCall.result :
          LET fetched == Refetched(lastCall.op, row)
          IN IF lastCall.op \in {"upsertVisionPlan", "upsertDailyReflection"}
             THEN \A got \in fetched :
                     got # {} /\ \A g \in got : DataOf(g) = DataOf(row)
             ELSE \E got \in fetched : \A g \in got : DataOf(g) = DataOf(row)

\* C16 witness: an update that made a quest inactive returned it, and the
\* owner's read holds it.
C16_UpdatedQuestRefetched ==
    /\ lastCall.op = "updateQuarterlyQuest"
    /\ \E q \in lastCall.result :
          /\ ~q.isActive
          /\ q \in getQuarterlyQuests(q.userId)

\* C17: getUser, getVisionPlan and getDailyReflection resolve, when no row
\* matches, with undefined and never reject: the one thing they can come back
\* with is a result without a row, which is not what a failed call leaves.
C17_AbsentIsNotAnError ==
    \A u \in Users :
       /\ getUser(u) = {}
             => Got("getUser", getUser(u)) = { Returned("getUser", {}) }
       /\ getVisionPlan(u) = {}
             => Got("getVisionPlan", getVisionPlan(u)) =
                   { Returned("getVisionPlan", {}) }
       /\ \A d \in Dates :
             getDailyReflection(u, d) = {}
                => Got("getDailyReflection", getDailyReflection(u, d)) =
                      { Returned("getDailyReflection", {}) }
       /\ Returned("getVisionPlan", {}) # Threw("getVisionPlan")

\* C17 witness: a user who logged in and saved a reflection but never a vision
\* plan, while another user has one: getVisionPlan comes back empty for the
\* first and with the plan for the second.
C17_UserWithoutPlan ==
    /\ getUser("u1") # {}
    /\ getDailyReflection("u1", "d1") # {}
    /\ getDailyReflection("u1", "d2") = {}
    /\ Got("getVisionPlan", getVisionPlan("u1")) = { Returned("getVisionPlan", {}) }
    /\ \E p \in visionPlans :
          Got("getVisionPlan", getVisionPlan("u2")) = { Returned("getVisionPlan", {p}) }

\* The profile columns upsertUser writes on a conflict.
ProfileColumns == {"email", "firstName", "lastName", "profileImageUrl"}

C20_SessionsKeepAllButTaskLink ==
    [][/\ errorLogs \subseteq errorLogs'
       /\ \A s \in pomodoroSessions :
             \E s2 \in pomodoroSessions' :
                /\ s2.id = s.id
                /\ \A f \in DOMAIN s \ {"taskId"} : s2[f] = s[f]
                /\ \/ s2.taskId = s.taskId
                   \/ /\ s2.taskId = NullId
                      /\ lastCall'.op = "deleteDailyTask"
                      /\ \E t \in dailyTasks \ dailyTasks' : t.id = s.taskId]_vars

\* C20 witness: with every session created linked to a task, a session is
\* stored without a link after a deleteDailyTask: the delete took the
\* session's task.
C20_SessionLostItsTask ==
    /\ lastCall.op = "deleteDailyTask"
    /\ \E s \in pomodoroSessions : s.taskId = NullId
    /\ dailyTasks = {}

\* C20, as stated: no operation changes any field of a PomodoroSession or
\* ErrorLog row once it is created.
C20_SessionsAndLogsImmutable ==
    [][/\ pomodoroSessions \subseteq pomodoroSessions'
       /\ errorLogs \subseteq errorLogs']_vars

\* The ids of the rows of a table.
IdsOf(table) == { r.id : r \in table }

\* C19: no operation but deleteDailyTask removes a row: along every execution
\* the rows of vision_plans, quarterly_quests, weekly_plans, pomodoro_sessions,
\* daily_reflections and error_logs only grow, and a daily task goes only by a
\* deleteDailyTask.
C19_OnlyTasksAreDeleted ==
    [][/\ IdsOf(visionPlans) \subseteq IdsOf(visionPlans')
       /\ IdsOf(quarterlyQuests) \subseteq IdsOf(quarterlyQuests')
       /\ IdsOf(weeklyPlans) \subseteq IdsOf(weeklyPlans')
       /\ IdsOf(pomodoroSessions) \subseteq IdsOf(pomodoroSessions')
       /\ IdsOf(dailyReflections) \subseteq IdsOf(dailyReflections')
       /\ IdsOf(errorLogs) \subseteq IdsOf(errorLogs')
       /\ IdsOf(users) \subseteq IdsOf(users')
       /\ ~(IdsOf(dailyTasks) \subseteq IdsOf(dailyTasks'))
             => lastCall'.op = "deleteDailyTask"]_vars

\* C19 witness: a deleteDailyTask has removed a task (an id the store gave out
\* is no row any more) and left the session that was linked to it.
C19_TaskDeletedSessionKept ==
    /\ lastCall.op = "deleteDailyTask"
    /\ nextId = MaxRows + 1
    /\ dailyTasks = {}
    /\ Cardinality(pomodoroSessions) = MaxRows - 1
    /\ Cardinality(IdsOf(visionPlans) \cup IdsOf(quarterlyQuests)
                      \cup IdsOf(weeklyPlans) \cup IdsOf(dailyReflections)
                      \cup IdsOf(errorLogs)) = 0

\* C21: no write to one entity touches another: createDailyTask and
\* updateDailyTask leave every weekly plan as it was, createPomodoroSession
\* every daily task, createWeeklyPlan and updateWeeklyPlan every quest.
C21_WritesTouchOneEntity ==
    [][/\ lastCall'.op \in {"createDailyTask", "updateDailyTask"}
             => weeklyPlans' = weeklyPlans
       /\ lastCall'.op = "createPomodoroSession" => dailyTasks' = dailyTasks
       /\ lastCall'.op \in {"createWeeklyPlan", "updateWeeklyPlan"}
             => quarterlyQuests' = quarterlyQuests]_vars

\* C21 witness: a session was created for a task, and the task's pomodoroCount
\* is still the 0 it was created with.
C21_SessionLeftTaskCount ==
    /\ lastCall.op = "createPomodoroSession"
    /\ \E s \in lastCall.result : \E t \in dailyTasks :
          s.taskId = t.id /\ t.pomodoroCount = 0

\* A task linked to a weekly plan was completed, and the plan's progress is
\* still the 0 it was created with.
C21_CompletedTaskLeftPlanProgress ==
    /\ lastCall.op = "updateDailyTask"
    /\ \E t \in lastCall.result : \E p \in weeklyPlans :
          t.weeklyPlanId = p.id /\ t.isCompleted /\ p.progress = 0

\* The columns an update may change: those its updates name, the stamp, and
\* for a task patched with isCompleted the derived completedAt.
PatchedColumns(op, updates) ==
    DOMAIN updates \cup {"updatedAt"} \cup
    (IF op = "updateDailyTask" /\ "isCompleted" \in DOMAIN updates
     THEN {"completedAt"} ELSE {})

\* The row an update returned is the one row of before that it replaces,
\* changed in the patched columns alone, each set to what the patch asks for.
PatchApplied(before, after, call) ==
    \A new \in call.result :
       \E old \in before :
          /\ after = (before \ {old}) \cup {new}
          /\ DOMAIN new = DOMAIN old
          /\ \A f \in DOMAIN old \ PatchedColumns(call.op, call.updates) :
                new[f] = old[f]
          /\ \A f \in (DOMAIN call.updates \cap DOMAIN old) \ {"updatedAt"} :
                \/ (f = "completedAt" /\ "isCompleted" \in DOMAIN call.updates)
                \/ new[f] = call.updates[f]
          /\ new.updatedAt = clock

\* C22: an update of a quest, a weekly plan or a daily task that finds the
\* caller's row changes the columns its updates name, the refreshed updatedAt
\* and, for a task, the derived completedAt, and nothing else; an updatedAt of
\* the caller's does not replace the refreshed one. (A step that leaves the
\* clock alone and ends with an update as the last call is that update.)
C22_PatchChangesNamedColumns ==
    [][clock' = clock
          => /\ lastCall'.op = "updateQuarterlyQuest" /\ ~lastCall'.threw
                   => PatchApplied(quarterlyQuests, quarterlyQuests', lastCall')
             /\ lastCall'.op = "updateWeeklyPlan" /\ ~lastCall'.threw
                   => PatchApplied(weeklyPlans, weeklyPlans', lastCall')
             /\ lastCall'.op = "updateDailyTask" /\ ~lastCall'.threw
                   => PatchApplied(dailyTasks, dailyTasks', lastCall')]_vars

\* C22 witness: a weekly plan patched, at a later time than its creation, with
\* a progress and an updatedAt of the caller's holds the progress, the store's
\* time as updatedAt, and the createdAt it had.
C22_CallerStampRefreshed ==
    /\ lastCall.op = "updateWeeklyPlan"
    /\ ~lastCall.threw
    /\ "updatedAt" \in DOMAIN lastCall.updates
    /\ \E p \in lastCall.result :
          /\ p \in weeklyPlans
          /\ p.progress = 50
          /\ p.updatedAt = clock
          /\ p.updatedAt # lastCall.updates.updatedAt
          /\ p.createdAt < p.updatedAt

\* C23: when the store rejects a statement of a call, the call issues no
\* further statement (it is over: no write of it is pending), the route answers
\* with an error status, and the stored rows are as they were; an upsert whose
\* write fails after its lookup leaves no row of its payload.
C23_FailedCallWritesNothing ==
    [][/\ \A op \in SingleStatementOps :
             statementFails(op)
                => /\ tables' = tables
                   /\ inflight' = inflight
                   /\ RouteStatus(lastCall') \in {400, 500}
       /\ \A c \in Calls, op \in UpsertOps :
             upsertReadFails(c, op)
                => /\ tables' = tables
                   /\ inflight'[c] = Idle
                   /\ RouteStatus(lastCall') \in {400, 500}
       /\ \A c \in Calls :
             upsertWriteFails(c)
                => /\ tables' = tables
                   /\ inflight'[c] = Idle
                   /\ \A d \in Calls \ {c} : inflight'[d] = inflight[d]
                   /\ RouteStatus(lastCall') \in {400, 500}]_vars

\* C23 witness: the insert of an upsertVisionPlan failed after its lookup found
\* no plan: no call is pending and no vision plan is stored.
C23_FailedInsertLeftNoRow ==
    /\ lastCall.threw
    /\ lastCall.op = "upsertVisionPlan"
    /\ "statement" \in DOMAIN lastCall
    /\ lastCall.statement = 2
    /\ NoneInFlight
    /\ visionPlans = {}

\* C24: a request without a session to any route but error-log submission is
\* answered 401 with no storage call made for it, and every storage call on a
\* user's rows is made with the userId of the request's session: the rows a
\* read returns are the session user's, and an update or delete is the call
\* with the session's userId.
C24_CallsCarrySessionUser ==
    [][/\ ( request'.session = NoSession /\ request'.route \notin PublicRoutes
            /\ request'.route # "none" )
             => /\ lastCall' = Answered(401)
                /\ tables' = tables
                /\ inflight' = inflight
       /\ lastCall'.op = "getVisionPlan"
             => \A p \in lastCall'.result : p.userId = request.session
       /\ lastCall'.op = "updateDailyTask"
             => updateDailyTask(request.id, request.session, request.body)
       /\ lastCall'.op = "deleteDailyTask"
             => deleteDailyTask(request.id, request.session)
       /\ \A c \in Calls :
             inflight'[c] # Idle
                => inflight'[c].payload.userId = request'.session]_vars

\* C24 witness: tasks are stored, and a request without a session to delete one
\* of them has been answered 401, the task still there.
C24_AnonymousDeleteRefused ==
    /\ request.session = NoSession
    /\ request.route = "DELETE /api/daily-tasks/:id"
    /\ lastCall = Answered(401)
    /\ \E t \in dailyTasks : t.id = request.id

\* C28: every row created through an authenticated POST route holds the
\* userId of the request's session, whatever userId the body carries.
C28_CreatedRowsBelongToSession ==
    ( /\ lastCall.op \in {"upsertVisionPlan", "createQuarterlyQuest",
                          "createWeeklyPlan", "createDailyTask",
                          "createPomodoroSession", "upsertDailyReflection"}
      /\ ~lastCall.threw )
       => /\ lastCall.result # {}
          /\ \A r \in lastCall.result : r.userId = request.session
          /\ \A r \in visionPlans \cup quarterlyQuests \cup weeklyPlans
                        \cup dailyTasks \cup pomodoroSessions \cup dailyReflections :
                r.userId \in Users

\* C28 witness: a daily task was created for a request whose body carries the
\* userId of another user than the session's, and the row is the session's.
C28_BodyUserIdOverridden ==
    /\ lastCall.op = "createDailyTask"
    /\ "userId" \in DOMAIN request.body
    /\ request.body.userId # request.session
    /\ \E t \in lastCall.result : t \in dailyTasks /\ t.userId = request.session

\* The rows of every table that has an owner column.
OwnedRows ==
    visionPlans \cup quarterlyQuests \cup weeklyPlans \cup dailyTasks
       \cup pomodoroSessions \cup dailyReflections

\* C25: the userId of every vision plan, quest, weekly plan, daily task,
\* session and reflection is the id of a row of users: a create for a user that
\* does not exist is rejected, and when a user is removed so are the rows the
\* user owns.
C25_OwnersExist ==
    /\ \A r \in OwnedRows : \E u \in users : u.id = r.userId
    /\ ( /\ lastCall.op \in {"createQuarterlyQuest", "createWeeklyPlan",
                             "createDailyTask", "createPomodoroSession",
                             "upsertVisionPlan", "upsertDailyReflection"}
         /\ ~lastCall.threw )
          => \A r \in lastCall.result : r \in OwnedRows

\* C25 witness: a user was removed after the store had given out all its ids
\* to owned rows, and the one row left is of the one user left.
C25_UserRemovedWithRows ==
    /\ lastCall.op = "removeUser"
    /\ nextId = MaxRows + 1
    /\ errorLogs = {}
    /\ Cardinality(users) = 1
    /\ Cardinality(OwnedRows) = MaxRows - 1

\* A create for a user that has no row was rejected, and nothing is stored.
C25_CreateForNoUserRejected ==
    /\ users = {}
    /\ lastCall = Threw("createDailyTask")
    /\ OwnedRows = {}

\* C26: the onboarding state is a function of the fetched vision plan and
\* quests in which the life-compass step is completed, and onboarding can be
\* complete, only when the plan has at least 3 core values with a vision and a
\* purpose, the quests step only when a quest is active, and useOnboarding and
\* the life-compass page agree on the life-compass predicate.
C26_CompassNeedsThreeValues ==
    \A u \in Users :
       \A visionPlan \in FirstOf(getVisionPlan(u)) :
          /\ hasLifeCompass(visionPlan)
                => \E p \in visionPlan :
                      /\ Len(p.coreValues) >= 3
                      /\ Truthy(p.threeYearVision)
                      /\ Truthy(p.whyEngine)
          /\ isOnboardingComplete(visionPlan, getQuarterlyQuests(u))
                => \E p \in visionPlan : Len(p.coreValues) >= 3
          /\ hasLifeCompass(visionPlan) = isComplete(visionPlan)
          /\ hasQuarterlyQuests(getQuarterlyQuests(u))
                <=> \E q \in getQuarterlyQuests(u) : q.isActive

\* The part of C26 the code keeps: the quests step is completed exactly when
\* the user has an active quest, and neither predicate holds without a plan
\* that has a core value, a vision and a purpose.
C26_StepsFollowFetchedData ==
    \A u \in Users :
       \A visionPlan \in FirstOf(getVisionPlan(u)) :
          /\ hasLifeCompass(visionPlan)
                => \E p \in visionPlan :
                      /\ Len(p.coreValues) >= 1
                      /\ Truthy(p.threeYearVision)
                      /\ Truthy(p.whyEngine)
          /\ isComplete(visionPlan) => hasLifeCompass(visionPlan)
          /\ hasQuarterlyQuests(getQuarterlyQuests(u))
                <=> \E q \in getQuarterlyQuests(u) : q.isActive

\* The row of after that has the id of row, if there is one.
SameId(row, after) == { r \in after : r.id = row.id }

\* C27: no update of a quest, a weekly plan or a daily task changes the userId
\* or the id of a row, whatever its updates carry: every row of before is a
\* row of after with the same id and the same userId.
C27_OwnerFixedAtCreation ==
    [][lastCall'.op \in {"updateQuarterlyQuest", "updateWeeklyPlan",
                         "updateDailyTask"}
          => \A row \in quarterlyQuests \cup weeklyPlans \cup dailyTasks :
                \E r \in SameId(row, quarterlyQuests' \cup weeklyPlans'
                                        \cup dailyTasks') :
                   r.userId = row.userId]_vars

\* The part of C27 the code keeps: an update whose updates carry no userId
\* leaves the owner and the id of every row as they were.
C27_OwnerKeptWithoutUserIdPatch ==
    [][( /\ lastCall'.op \in {"updateQuarterlyQuest", "updateWeeklyPlan",
                              "updateDailyTask"}
         /\ ~lastCall'.threw
         /\ "userId" \notin DOMAIN lastCall'.updates )
          => \A row \in quarterlyQuests \cup weeklyPlans \cup dailyTasks :
                \E r \in SameId(row, quarterlyQuests' \cup weeklyPlans'
                                        \cup dailyTasks') :
                   r.userId = row.userId]_vars

\* C29: deleteDailyTask removes no pomodoro session, and for every user
\* getPomodoroStats, with a date and without one, gives after the delete what
\* it gave before it.
C29_DeleteKeepsStats ==
    [][lastCall'.op = "deleteDailyTask"
          => /\ IdsOf(pomodoroSessions') = IdsOf(pomodoroSessions)
             /\ \A u \in Users, d \in Dates \cup {NullText} :
                   getPomodoroStats(u, d)' = getPomodoroStats(u, d)]_vars

\* C29 witness: a task was deleted, a work session that was linked to it is
\* stored without the link, and it still counts in its owner's statistics of
\* its day.
C29_UnlinkedSessionCounted ==
    /\ lastCall.op = "deleteDailyTask"
    /\ \E s \in pomodoroSessions :
          /\ s.taskId = NullId
          /\ s.type = "work"
          /\ getPomodoroStats(s.userId, s.completedAt.date).completedPomodoros = 1
          /\ getPomodoroStats(s.userId, NullText).totalFocusTime = s.duration

\* C30: the timer submits a session only from a timeLeft of zero, one session
\* for each countdown that reached zero, of the type that ran and of that
\* type's full length (1500 for work, 300 for break); toggleTimer, stopTimer,
\* resetTimer and switchTimerType submit none; and timeLeft stays within 0 and
\* the full length of the current type.
C30_OneSessionPerCountdown ==
    [][/\ timer'.timeLeft \in 0..(IF timer'.timerType = "work" THEN 1500 ELSE 300)
       /\ Len(timer'.posts) =
             timer'.countdowns - (IF timer'.timeLeft = 0 THEN 1 ELSE 0)
       /\ timer'.posts # timer.posts
             => /\ timer.timeLeft = 0
                /\ timer'.posts =
                      Append(timer.posts,
                             [taskId |-> timer.currentTaskId,
                              duration |-> IF timer.timerType = "work"
                                           THEN 1500 ELSE 300,
                              type |-> timer.timerType])
       /\ ( toggleTimer \/ stopTimer \/ resetTimer
            \/ \E type \in TimerTypes : switchTimerType(type) )
             => timer'.posts = timer.posts]_vars

\* C30 witness: a work countdown and then a break countdown ran to zero: two
\* sessions were submitted, work of 1500 and break of 300, and the timer
\* stands at a full work session.
C30_WorkThenBreakSubmitted ==
    /\ Len(timer.posts) = 2
    /\ timer.posts[1].type = "work" /\ timer.posts[1].duration = 1500
    /\ timer.posts[2].type = "break" /\ timer.posts[2].duration = 300
    /\ timer.timerType = "work"
    /\ timer.timeLeft = 1500
    /\ ~timer.isRunning

====
